---- MODULE Spec2Model ----
(***************************************************************************)
(* Booking admission and availability accounting of the hotel-booking      *)
(* backend (controllers/payment.controller.js).  Each request handler is a *)
(* process whose steps are separated by its awaited database calls.        *)
(***************************************************************************)
EXTENDS Integers, FiniteSets, Sequences, TLC

\* ------------------------------------------------------------------ bounds
MaxDay == 3          \* calendar days a request can name: 1..MaxDay
MaxQty == 2          \* largest quantity a request asks for
MaxBookings == 2     \* Booking rows ever inserted in one behaviour
MaxRooms == 1        \* Room rows inserted in one behaviour, beyond the two of Init
MaxImages == 2       \* UrlImageRoom rows ever inserted in one behaviour
MaxFiles == 1        \* uploaded files one request carries
MaxReviews == 2      \* Reviews rows ever inserted in one behaviour
MaxUsers == 2        \* User rows ever inserted in one behaviour
MaxCoupons == 2      \* Coupons rows ever inserted in one behaviour

Procs == {1, 2}
Days == 1..MaxDay

\* ------------------------------------------------- JavaScript request values
Undef == [t |-> "undef", n |-> 0]
Num(k) == [t |-> "num", n |-> k]
NumStr(k) == [t |-> "numstr", n |-> k]
DateStr(d) == [t |-> "date", n |-> d]
Text(k) == [t |-> "text", n |-> k]
EmptyStr == [t |-> "empty", n |-> 0]

\* !v
Falsy(v) == v.t = "undef" \/ (v.t = "num" /\ v.n = 0) \/ v.t = "empty"

\* new Date(v).getTime(): NaN unless v is a date string
NewDate(v) == IF v.t = "date" THEN [nan |-> FALSE, n |-> v.n] ELSE [nan |-> TRUE, n |-> 0]

\* new Date(a) >= new Date(b): every comparison with NaN is false
DateGE(a, b) == LET x == NewDate(a)
                    y == NewDate(b)
                IN  ~x.nan /\ ~y.nan /\ x.n >= y.n

\* typeof v !== "number" || v <= 0
NotPositiveNumber(v) == v.t # "num" \/ v.n <= 0

\* Number(v) as used by the relational operator <
ToNumber(v) == IF v.t \in {"num", "numstr"} THEN [nan |-> FALSE, n |-> v.n] ELSE [nan |-> TRUE, n |-> 0]

\* ------------------------------------------------------ persistence layer
\* value of an id column compared with a request value
DbId(v) == IF v.t \in {"num", "numstr"} THEN v.n ELSE 0

\* value of a date column written from / compared with a request value:
\* a string that is no date is coerced to the zero date
DbDate(v) == IF v.t = "date" THEN v.n ELSE 0

NoFields == [room_id |-> Undef, user_id |-> Undef, check_in_date |-> Undef,
             check_out_date |-> Undef, total_price |-> Undef, status |-> Undef,
             special_requests |-> Undef, quantity |-> Undef, full_name |-> Undef,
             hotel_id |-> Undef, id |-> Undef]

NullSum == [null |-> TRUE, n |-> 0]

RECURSIVE SumQuantity(_)
SumQuantity(S) == IF S = {} THEN 0
                  ELSE LET r == CHOOSE x \in S : TRUE
                       IN  r.quantity + SumQuantity(S \ {r})

\* the overlap test with closed bounds
Overlapping_closed(store, rid, lo, hi) ==
    {r \in store : r.room_id = rid /\ r.check_in_date <= hi /\ r.check_out_date >= lo}

\* the overlap test without the check_out_date bound
Overlapping_noLowerBound(store, rid, lo, hi) ==
    {r \in store : r.room_id = rid /\ r.check_in_date < hi}

\* where: room_id, check_in_date < hi, check_out_date > lo
Overlapping(store, rid, lo, hi) ==
    {r \in store : r.room_id = rid /\ r.check_in_date < hi /\ r.check_out_date > lo}

\* Booking.sum("quantity", {where}): null when no row matches
BookingSum(store, rid, lo, hi) ==
    LET rows == Overlapping(store, rid, lo, hi)
    IN  IF rows = {} THEN NullSum ELSE [null |-> FALSE, n |-> SumQuantity(rows)]

\* (bookedQuantity || 0)
OrZero(s) == IF s.null \/ s.n = 0 THEN 0 ELSE s.n

NoResp == [status |-> 0, key |-> "none", text |-> "", row |-> {}, avail |-> {}]
Json(st, k, txt) == [status |-> st, key |-> k, text |-> txt, row |-> {}, avail |-> {}]

NotEnoughMessage == Json(400, "message", "Not enough rooms available for the selected dates")
RoomNotFoundMessage == Json(400, "message", "Room not found")

\* the tables with an auto-increment key written by the room, image, review,
\* user and coupon controllers
Tables == {"Room", "UrlImageRoom", "Reviews", "User", "Coupons"}

VARIABLES rooms, bookings, nextId, pc, op, req, room, booked, resp,
          calls, sent, images, reviews, users, autoId, coupons

vars == <<rooms, bookings, nextId, pc, op, req, room, booked, resp,
          calls, sent, images, reviews, users, autoId, coupons>>

Init ==
    /\ rooms = {[id |-> 1, quantity |-> 2], [id |-> 2, quantity |-> 1]}
    /\ bookings = {}
    /\ nextId = 1
    /\ pc = [p \in Procs |-> "idle"]
    /\ op = [p \in Procs |-> "none"]
    /\ req = [p \in Procs |-> NoFields]
    /\ room = [p \in Procs |-> {}]
    /\ booked = [p \in Procs |-> NullSum]
    /\ resp = [p \in Procs |-> NoResp]
    /\ calls = [p \in Procs |-> <<>>]
    /\ sent = [p \in Procs |-> 0]
    /\ images = {}
    /\ reviews = {}
    /\ users = {}
    /\ autoId = [t \in Tables |-> IF t = "Room" THEN 3 ELSE 1]
    /\ coupons = {}

\* the locals of the handler run by process p after a step; room and booked
\* are kept past a 200 or 201 response as the record of what that request read;
\* sent counts the responses the request has sent
Set(p, pcv, reqv, roomv, bookedv, respv) ==
    /\ pc' = [pc EXCEPT ![p] = pcv]
    /\ req' = [req EXCEPT ![p] = reqv]
    /\ room' = [room EXCEPT ![p] = roomv]
    /\ booked' = [booked EXCEPT ![p] = bookedv]
    /\ resp' = [resp EXCEPT ![p] = respv]
    /\ sent' = [sent EXCEPT ![p] = (IF pc[p] = "idle" THEN 0 ELSE @)
                                     + (IF respv = NoResp THEN 0 ELSE 1)]
    /\ UNCHANGED <<images, reviews, users, autoId, coupons>>

\* the calls to the database and the other collaborators that the request
\* run by process p has issued so far, in order
Calls(p, cs) == calls' = [calls EXCEPT ![p] = cs]

\* one more call is issued
Issue(p, c) == Calls(p, Append(calls[p], c))

NoCall(p) == Calls(p, calls[p])

\* the handler sends its response and returns
Respond(p, respv) == Set(p, "idle", NoFields, {}, NullSum, respv)

\* a lookup that ignores the id
RoomFindOne_anyRoom(v) == rooms

\* Room.findOne({ where: { id } })
RoomFindOne(v) == {r \in rooms : r.id = DbId(v)}

\* ------------------------------------------------------------ request inputs
GoodBody == [NoFields EXCEPT !.room_id = Num(1), !.user_id = Num(1),
               !.check_in_date = DateStr(1), !.check_out_date = DateStr(2),
               !.total_price = Num(100), !.quantity = Num(1),
               !.full_name = Text(1), !.hotel_id = Num(1)]

\* (check-in, check-out) pairs: check-in before check-out, check-in not
\* before check-out, and strings that are no dates
AllPairs == {DateStr(a) : a \in Days} \X {DateStr(b) : b \in Days}

ValidPairs == {d \in AllPairs : d[1].n < d[2].n}

InvertedPairs == AllPairs \ ValidPairs

TextPairs == {<<Text(1), DateStr(2)>>, <<DateStr(2), Text(1)>>, <<Text(1), Text(1)>>}

\* room 1 is asked for with every pair of dates, room 2 for the whole
\* calendar, room 3 does not exist
BookingBodies ==
    {[GoodBody EXCEPT !.check_in_date = d[1], !.check_out_date = d[2], !.quantity = Num(q)] :
        d \in ValidPairs, q \in 1..MaxQty}
    \cup {[GoodBody EXCEPT !.check_in_date = d[1], !.check_out_date = d[2]] :
            d \in InvertedPairs \cup TextPairs}
    \cup {[GoodBody EXCEPT !.room_id = Num(2), !.check_out_date = DateStr(MaxDay),
                           !.quantity = Num(q)] : q \in 1..MaxQty}
    \cup {[GoodBody EXCEPT !.room_id = Num(3)]}
    \cup {[GoodBody EXCEPT !.room_id = Undef], [GoodBody EXCEPT !.user_id = Undef],
          [GoodBody EXCEPT !.check_in_date = Undef], [GoodBody EXCEPT !.check_out_date = Undef],
          [GoodBody EXCEPT !.total_price = Undef], [GoodBody EXCEPT !.quantity = Undef],
          [GoodBody EXCEPT !.full_name = Undef], [GoodBody EXCEPT !.hotel_id = Undef]}
    \cup {[GoodBody EXCEPT !.total_price = v] : v \in {Num(0), Num(-1), NumStr(100)}}
    \cup {[GoodBody EXCEPT !.quantity = v] : v \in {Num(0), Num(-1), NumStr(1)}}

\* req.query of GET /availability: every value is a string or absent.
\* roomId, checkInDate, checkOutDate, quantity are held in the fields
\* room_id, check_in_date, check_out_date, quantity.
GoodQuery == [NoFields EXCEPT !.room_id = NumStr(1), !.check_in_date = DateStr(1),
                !.check_out_date = DateStr(2), !.quantity = NumStr(1)]

AvailabilityQueries ==
    {[GoodQuery EXCEPT !.check_in_date = d[1], !.check_out_date = d[2], !.quantity = NumStr(q)] :
        d \in ValidPairs, q \in {1, MaxQty + 1}}
    \cup {[GoodQuery EXCEPT !.check_in_date = d[1], !.check_out_date = d[2]] :
            d \in InvertedPairs \cup TextPairs}
    \cup {[GoodQuery EXCEPT !.room_id = NumStr(2), !.check_out_date = DateStr(MaxDay)],
          [GoodQuery EXCEPT !.room_id = NumStr(3)]}
    \cup {[GoodQuery EXCEPT !.room_id = Undef], [GoodQuery EXCEPT !.check_in_date = Undef],
          [GoodQuery EXCEPT !.check_out_date = Undef], [GoodQuery EXCEPT !.quantity = Undef],
          [GoodQuery EXCEPT !.quantity = Text(1)], [GoodQuery EXCEPT !.quantity = NumStr(0)]}

\* ------------------------------------------------------------ createBooking
\* a validation without the check of total_price
BookingValidation_noPriceCheck(b) ==
    IF \/ Falsy(b.room_id) \/ Falsy(b.user_id) \/ Falsy(b.check_in_date)
       \/ Falsy(b.check_out_date) \/ Falsy(b.quantity)
       \/ Falsy(b.full_name) \/ Falsy(b.hotel_id)
    THEN "Missing required fields"
    ELSE IF DateGE(b.check_in_date, b.check_out_date)
    THEN "'check_in_date' must be before 'check_out_date'"
    ELSE IF NotPositiveNumber(b.quantity)
    THEN "'quantity' must be a positive number"
    ELSE "ok"

\* the synchronous field validation; "ok" when the request passes
BookingValidation(b) ==
    IF \/ Falsy(b.room_id) \/ Falsy(b.user_id) \/ Falsy(b.check_in_date)
       \/ Falsy(b.check_out_date) \/ Falsy(b.total_price) \/ Falsy(b.quantity)
       \/ Falsy(b.full_name) \/ Falsy(b.hotel_id)
    THEN "Missing required fields"
    ELSE IF DateGE(b.check_in_date, b.check_out_date)
    THEN "'check_in_date' must be before 'check_out_date'"
    ELSE IF NotPositiveNumber(b.total_price)
    THEN "'total_price' must be a positive number"
    ELSE IF NotPositiveNumber(b.quantity)
    THEN "'quantity' must be a positive number"
    ELSE "ok"

\* the admission test without the booked quantity
NotEnoughRooms_ignoreBooked(s, q, r) == q > r.quantity

\* the admission test letting one unit too many through
NotEnoughRooms_offByOne(s, q, r) == OrZero(s) + q > r.quantity + 1

\* (bookedQuantity || 0) + quantity > room.quantity
NotEnoughRooms(s, q, r) == OrZero(s) + q > r.quantity

\* a row that takes check_out_date from check_in_date
NewRow_sameDates(id, b) ==
    [id |-> id, room_id |-> DbId(b.room_id), user_id |-> DbId(b.user_id),
     check_in_date |-> DbDate(b.check_in_date), check_out_date |-> DbDate(b.check_in_date),
     total_price |-> b.total_price.n, status |-> b.status,
     special_requests |-> b.special_requests, quantity |-> b.quantity.n,
     full_name |-> b.full_name, hotel_id |-> DbId(b.hotel_id)]

\* a row that always books a single unit
NewRow_unitQuantity(id, b) ==
    [id |-> id, room_id |-> DbId(b.room_id), user_id |-> DbId(b.user_id),
     check_in_date |-> DbDate(b.check_in_date), check_out_date |-> DbDate(b.check_out_date),
     total_price |-> b.total_price.n, status |-> b.status,
     special_requests |-> b.special_requests, quantity |-> 1,
     full_name |-> b.full_name, hotel_id |-> DbId(b.hotel_id)]

\* the row Booking.create persists for a request body
NewRow(id, b) ==
    [id |-> id, room_id |-> DbId(b.room_id), user_id |-> DbId(b.user_id),
     check_in_date |-> DbDate(b.check_in_date), check_out_date |-> DbDate(b.check_out_date),
     total_price |-> b.total_price.n, status |-> b.status,
     special_requests |-> b.special_requests, quantity |-> b.quantity.n,
     full_name |-> b.full_name, hotel_id |-> DbId(b.hotel_id)]

\* request received: validation, then Room.findOne is issued
createBooking(p, b) ==
    /\ pc[p] = "idle"
    /\ op' = [op EXCEPT ![p] = "createBooking"]
    /\ LET v == BookingValidation(b)
       IN  IF v # "ok"
           THEN Set(p, "idle", NoFields, {}, NullSum, Json(400, "error", v)) /\ Calls(p, <<>>)
           ELSE Set(p, "cb_findOne", b, {}, NullSum, NoResp) /\ Calls(p, <<"Room.findOne">>)
    /\ UNCHANGED <<rooms, bookings, nextId>>

\* Room.findOne returns; Booking.sum is issued
createBooking_findOne(p) ==
    /\ pc[p] = "cb_findOne"
    /\ LET found == RoomFindOne(req[p].room_id)
       IN  IF found = {}
           THEN Respond(p, RoomNotFoundMessage) /\ NoCall(p)
           ELSE Set(p, "cb_sum", req[p], found, NullSum, NoResp) /\ Issue(p, "Booking.sum")
    /\ UNCHANGED <<rooms, bookings, nextId, op>>

\* Booking.sum returns; admission is decided and Booking.create is issued
createBooking_sum(p) ==
    /\ pc[p] = "cb_sum"
    /\ LET s == BookingSum(bookings, DbId(req[p].room_id),
                           DbDate(req[p].check_in_date), DbDate(req[p].check_out_date))
           r == CHOOSE x \in room[p] : TRUE
       IN  IF NotEnoughRooms(s, req[p].quantity.n, r)
           THEN Respond(p, NotEnoughMessage) /\ NoCall(p)
           ELSE Set(p, "cb_create", req[p], room[p], s, NoResp) /\ Issue(p, "Booking.create")
    /\ UNCHANGED <<rooms, bookings, nextId, op>>

\* Booking.create returns the persisted row, which is the 201 response
createBooking_create(p) ==
    /\ pc[p] = "cb_create"
    /\ nextId <= MaxBookings
    /\ LET newBooking == NewRow(nextId, req[p])
       IN  /\ bookings' = bookings \cup {newBooking}
           /\ Set(p, "idle", NoFields, room[p], booked[p],
                  [Json(201, "body", "") EXCEPT !.row = {newBooking}])
    /\ nextId' = nextId + 1
    /\ NoCall(p)
    /\ UNCHANGED <<rooms, op>>

\* a catch that answers 500 and lets the handler go on to Booking.create
createBooking_catch_continue(p) ==
    /\ pc[p] \in {"cb_findOne", "cb_sum", "cb_create"}
    /\ Set(p, "cb_create", req[p], room[p], booked[p], Json(500, "body", "error"))
    /\ Issue(p, "Booking.create")
    /\ UNCHANGED <<rooms, bookings, nextId, op>>

\* a database call of createBooking rejects (a value it does not accept, a
\* lost connection, a full table): catch, 500
createBooking_catch(p) ==
    /\ pc[p] \in {"cb_findOne", "cb_sum", "cb_create"}
    /\ Respond(p, Json(500, "body", "error"))
    /\ NoCall(p)
    /\ UNCHANGED <<rooms, bookings, nextId, op>>

\* ---------------------------------------------------------- getAvailability
AvailabilityValidation(q) ==
    IF Falsy(q.room_id) \/ Falsy(q.check_in_date) \/ Falsy(q.check_out_date) \/ Falsy(q.quantity)
    THEN "Missing required fields"
    ELSE "ok"

\* a comparison that also refuses a request for exactly what is available
LessThanRequested_orEqual(avail, q) == LET x == ToNumber(q) IN ~x.nan /\ avail <= x.n

\* availableQuantity < quantity, quantity being a query string
LessThanRequested(avail, q) == LET x == ToNumber(q) IN ~x.nan /\ avail < x.n

getAvailability(p, q) ==
    /\ pc[p] = "idle"
    /\ op' = [op EXCEPT ![p] = "getAvailability"]
    /\ LET v == AvailabilityValidation(q)
       IN  IF v # "ok"
           THEN Set(p, "idle", NoFields, {}, NullSum, Json(400, "error", v)) /\ Calls(p, <<>>)
           ELSE Set(p, "ga_findOne", q, {}, NullSum, NoResp) /\ Calls(p, <<"Room.findOne">>)
    /\ UNCHANGED <<rooms, bookings, nextId>>

getAvailability_findOne(p) ==
    /\ pc[p] = "ga_findOne"
    /\ LET found == RoomFindOne(req[p].room_id)
       IN  IF found = {}
           THEN Respond(p, RoomNotFoundMessage) /\ NoCall(p)
           ELSE Set(p, "ga_sum", req[p], found, NullSum, NoResp) /\ Issue(p, "Booking.sum")
    /\ UNCHANGED <<rooms, bookings, nextId, op>>

getAvailability_sum(p) ==
    /\ pc[p] = "ga_sum"
    /\ LET s == BookingSum(bookings, DbId(req[p].room_id),
                           DbDate(req[p].check_in_date), DbDate(req[p].check_out_date))
           r == CHOOSE x \in room[p] : TRUE
           availableQuantity == r.quantity - OrZero(s)
       IN  IF LessThanRequested(availableQuantity, req[p].quantity)
           THEN Respond(p, NotEnoughMessage)
           ELSE Set(p, "idle", NoFields, room[p], NullSum,
                    [Json(200, "body", "") EXCEPT !.avail = {availableQuantity}])
    /\ NoCall(p)
    /\ UNCHANGED <<rooms, bookings, nextId, op>>

\* a catch that rolls the Booking table back to empty
getAvailability_catch_rollback(p) ==
    /\ pc[p] \in {"ga_findOne", "ga_sum"}
    /\ Respond(p, Json(500, "message", "Internal Server error"))
    /\ NoCall(p)
    /\ bookings' = {}
    /\ UNCHANGED <<rooms, nextId, op>>

getAvailability_catch(p) ==
    /\ pc[p] \in {"ga_findOne", "ga_sum"}
    /\ Respond(p, Json(500, "message", "Internal Server error"))
    /\ NoCall(p)
    /\ UNCHANGED <<rooms, bookings, nextId, op>>

\* ------------------------------------------------------------ getAllBooking
\* isNaN(parseInt(v)) for a query string: a string that starts with no digit
ParseIntIsNaN(v) == v.t \in {"text", "undef"}

\* isNaN(new Date(v))
InvalidDate(v) == NewDate(v).nan

getAllBookingValidation(q) ==
    IF ~Falsy(q.room_id) /\ ParseIntIsNaN(q.room_id)
    THEN "'room_id' must be a valid number"
    ELSE IF ~Falsy(q.user_id) /\ ParseIntIsNaN(q.user_id)
    THEN "'user_id' must be a valid number"
    ELSE IF ~Falsy(q.hotel_id) /\ ParseIntIsNaN(q.hotel_id)
    THEN "'hotel_id' must be a valid number"
    ELSE IF ~Falsy(q.check_in_date) /\ InvalidDate(q.check_in_date)
    THEN "'check_in_date' must be a valid date"
    ELSE IF ~Falsy(q.check_out_date) /\ InvalidDate(q.check_out_date)
    THEN "'check_out_date' must be a valid date"
    ELSE "ok"

GetAllQueries ==
    {NoFields, [NoFields EXCEPT !.room_id = NumStr(1)], [NoFields EXCEPT !.room_id = Text(1)],
     [NoFields EXCEPT !.user_id = Text(1)], [NoFields EXCEPT !.hotel_id = Text(1)],
     [NoFields EXCEPT !.check_in_date = Text(1)], [NoFields EXCEPT !.check_out_date = Text(1)],
     [NoFields EXCEPT !.check_in_date = DateStr(1), !.check_out_date = DateStr(2)]}

\* request received: validation, then Booking.findAll is issued; the where
\* clause stays empty whatever the query holds
getAllBooking(p, q) ==
    /\ pc[p] = "idle"
    /\ op' = [op EXCEPT ![p] = "getAllBooking"]
    /\ LET v == getAllBookingValidation(q)
       IN  IF v # "ok"
           THEN Set(p, "idle", NoFields, {}, NullSum, Json(400, "error", v)) /\ Calls(p, <<>>)
           ELSE Set(p, "all_findAll", q, {}, NullSum, NoResp) /\ Calls(p, <<"Booking.findAll">>)
    /\ UNCHANGED <<rooms, bookings, nextId>>

\* Booking.findAll returns every row
getAllBooking_findAll(p) ==
    /\ pc[p] = "all_findAll"
    /\ Respond(p, [Json(200, "body", "") EXCEPT !.row = bookings])
    /\ NoCall(p)
    /\ UNCHANGED <<rooms, bookings, nextId, op>>

getAllBooking_catch(p) ==
    /\ pc[p] = "all_findAll"
    /\ Respond(p, Json(500, "body", "error"))
    /\ NoCall(p)
    /\ UNCHANGED <<rooms, bookings, nextId, op>>

\* --------------------------------------------------------- getDetailBooking
BookingNotFound == Json(404, "message", "Booking not found")

getDetailBooking(p, id) ==
    /\ pc[p] = "idle"
    /\ op' = [op EXCEPT ![p] = "getDetailBooking"]
    /\ Set(p, "det_findOne", [NoFields EXCEPT !.id = NumStr(id)], {}, NullSum, NoResp)
    /\ Calls(p, <<"Booking.findOne">>)
    /\ UNCHANGED <<rooms, bookings, nextId>>

\* Booking.findOne({ where: { id } }) returns the row or null
getDetailBooking_findOne(p) ==
    /\ pc[p] = "det_findOne"
    /\ LET booking == {r \in bookings : r.id = DbId(req[p].id)}
       IN  IF booking = {}
           THEN Respond(p, BookingNotFound)
           ELSE Respond(p, [Json(200, "body", "") EXCEPT !.row = booking])
    /\ NoCall(p)
    /\ UNCHANGED <<rooms, bookings, nextId, op>>

getDetailBooking_catch(p) ==
    /\ pc[p] = "det_findOne"
    /\ Respond(p, Json(500, "body", "error"))
    /\ NoCall(p)
    /\ UNCHANGED <<rooms, bookings, nextId, op>>

\* ------------------------------------------------------------ deleteBooking
deleteBooking(p, id) ==
    /\ pc[p] = "idle"
    /\ op' = [op EXCEPT ![p] = "deleteBooking"]
    /\ Set(p, "del_destroy", [NoFields EXCEPT !.id = NumStr(id)], {}, NullSum, NoResp)
    /\ Calls(p, <<"Booking.destroy">>)
    /\ UNCHANGED <<rooms, bookings, nextId>>

\* a destroy that also takes the rows with a smaller id
deleteBooking_destroy_upTo(p) ==
    /\ pc[p] = "del_destroy"
    /\ LET deleted == {r \in bookings : r.id <= DbId(req[p].id)}
       IN  /\ bookings' = bookings \ deleted
           /\ IF Cardinality(deleted) = 0
              THEN Respond(p, BookingNotFound)
              ELSE Respond(p, Json(200, "message", "Booking deleted successfully"))
    /\ NoCall(p)
    /\ UNCHANGED <<rooms, nextId, op>>

\* Booking.destroy({ where: { id } }) returns the number of rows deleted
deleteBooking_destroy(p) ==
    /\ pc[p] = "del_destroy"
    /\ LET deleted == {r \in bookings : r.id = DbId(req[p].id)}
       IN  /\ bookings' = bookings \ deleted
           /\ IF Cardinality(deleted) = 0
              THEN Respond(p, BookingNotFound)
              ELSE Respond(p, Json(200, "message", "Booking deleted successfully"))
    /\ NoCall(p)
    /\ UNCHANGED <<rooms, nextId, op>>

\* a catch that issues Booking.destroy again instead of answering
deleteBooking_catch_retry(p) ==
    /\ pc[p] = "del_destroy"
    /\ Len(calls[p]) < 2
    /\ Set(p, "del_destroy", req[p], {}, NullSum, NoResp)
    /\ Issue(p, "Booking.destroy")
    /\ UNCHANGED <<rooms, bookings, nextId, op>>

deleteBooking_catch(p) ==
    /\ pc[p] = "del_destroy"
    /\ Respond(p, Json(500, "body", "error"))
    /\ NoCall(p)
    /\ UNCHANGED <<rooms, bookings, nextId, op>>


\* ------------------------------------------------- room.controller.js
\* isNaN(v)
IsNaN(v) == ToNumber(v).nan

\* a handler that runs from the request to its response without another
\* request in between: what it answers and the calls it issued
Reply(o, respv, cs) ==
    /\ pc[1] = "idle"
    /\ op' = [op EXCEPT ![1] = o]
    /\ resp' = [resp EXCEPT ![1] = respv]
    /\ calls' = [calls EXCEPT ![1] = cs]
    /\ sent' = [sent EXCEPT ![1] = 1]
    /\ UNCHANGED <<pc, req, room, booked, bookings, nextId>>

\* the response of a handler of the room, image, review and user
\* controllers, none of which requires the Coupons model
Answer(o, respv, cs) == Reply(o, respv, cs) /\ UNCHANGED coupons

\* req.params.id of a route /:id is a non-empty string
Ids(n) == {NumStr(k) : k \in 1..n}

GoodRoomBody == [name |-> Text(1), status |-> Text(1), price |-> NumStr(100),
                 quantity |-> NumStr(1), quantity_people |-> NumStr(2),
                 hotelId |-> NumStr(1), type_bed |-> Text(1)]

RoomBodies ==
    {[GoodRoomBody EXCEPT !.quantity = v] :
        v \in {Undef, Num(0), Num(-1), NumStr(1), Text(1)}}
    \cup {[GoodRoomBody EXCEPT !.name = Undef], [GoodRoomBody EXCEPT !.price = Text(1)],
          [GoodRoomBody EXCEPT !.hotelId = Undef], [GoodRoomBody EXCEPT !.hotelId = Text(1)]}

\* req.files: absent when no upload middleware parsed the request, otherwise
\* the uploaded files in order, each named by a number
NoFiles == [absent |-> TRUE, list |-> <<>>]
Files == {NoFiles} \cup {[absent |-> FALSE, list |-> [i \in 1..n |-> i]] : n \in 0..MaxFiles}

\* a check that accepts a request without quantity
RoomRequired_quantityOptional(b) ==
    \/ Falsy(b.name) \/ Falsy(b.status) \/ Falsy(b.price)
    \/ Falsy(b.quantity_people) \/ Falsy(b.type_bed)

\* !name || !status || !price || !quantity || !quantity_people || !type_bed
RoomRequired(b) ==
    \/ Falsy(b.name) \/ Falsy(b.status) \/ Falsy(b.price) \/ Falsy(b.quantity)
    \/ Falsy(b.quantity_people) \/ Falsy(b.type_bed)

\* the validation of createRoom; "ok" when the request passes
createRoomValidation(b) ==
    IF RoomRequired(b) \/ Falsy(b.hotelId)
    THEN "All fields are required."
    ELSE IF IsNaN(b.price) \/ IsNaN(b.quantity) \/ IsNaN(b.quantity_people) \/ IsNaN(b.hotelId)
    THEN "'price', 'quantity', 'quantity_people', and 'hotelId' must be valid numbers."
    ELSE "ok"

\* the validation of updateRoom
updateRoomValidation(id, b) ==
    IF Falsy(id)
    THEN "'id' is required."
    ELSE IF RoomRequired(b)
    THEN "All fields are required."
    ELSE IF IsNaN(b.price) \/ IsNaN(b.quantity) \/ IsNaN(b.quantity_people)
    THEN "'price', 'quantity', and 'quantity_people' must be valid numbers."
    ELSE "ok"

\* the Room row as the booking handlers read it: its id and its quantity
\* column, written from the request's number or numeric string
RoomRow(id, b) == [id |-> id, quantity |-> ToNumber(b.quantity).n]

\* the UrlImageRoom row created for an uploaded file
ImageRow(id, rid, f) == [id |-> id, IdRoom |-> rid, url |-> f, file_name |-> f]

\* the rows UrlImageRoom.create inserts for the first n files of a request
ImageRows(first, rid, files, n) == {ImageRow(first + i - 1, rid, files.list[i]) : i \in 1..n}

\* <<c, c, ..>>, n times
Repeat(c, n) == [i \in 1..n |-> c]

\* the number of UrlImageRoom.create calls a request issues: one per file
\* up to the one that fails (failAt counts the request's database calls, the
\* first being the one before the loop when there is one)
ImageCalls(files, failAt, before) ==
    IF files.absent THEN 0
    ELSE IF failAt > before /\ failAt - before <= Len(files.list) THEN failAt - before
    ELSE Len(files.list)

\* the loop over req.files throws: req.files is absent, or a create fails
ImageLoopThrows(files, failAt, before) ==
    files.absent \/ (failAt > before /\ failAt - before <= Len(files.list))

\* POST /rooms.  failAt is the database call of the request that rejects
\* (0: none does).
createRoom(b, files, failAt) ==
    /\ LET v == createRoomValidation(b)
           id == autoId["Room"]
           newRoom == RoomRow(id, b)
           n == ImageCalls(files, failAt, 1)
           made == IF ImageLoopThrows(files, failAt, 1) /\ ~files.absent THEN n - 1 ELSE n
           cs == <<"Room.create">> \o Repeat("UrlImageRoom.create", n)
       IN  IF v # "ok"
           THEN /\ Answer("createRoom", Json(400, "message", v), <<>>)
                /\ UNCHANGED <<rooms, images, autoId>>
           ELSE IF failAt = 1
           THEN /\ Answer("createRoom", Json(500, "error", "Failed to create room"), <<"Room.create">>)
                /\ UNCHANGED <<rooms, images, autoId>>
           ELSE /\ id <= 2 + MaxRooms
                /\ autoId["UrlImageRoom"] + made <= MaxImages + 1
                /\ rooms' = rooms \cup {newRoom}
                /\ images' = images \cup ImageRows(autoId["UrlImageRoom"], id, files, made)
                /\ autoId' = [autoId EXCEPT !["Room"] = id + 1, !["UrlImageRoom"] = @ + made]
                /\ IF ImageLoopThrows(files, failAt, 1)
                   THEN Answer("createRoom", Json(500, "error", "Failed to create room"), cs)
                   ELSE Answer("createRoom", [Json(201, "body", "") EXCEPT !.row = {newRoom}], cs)
    /\ UNCHANGED <<reviews, users>>

\* GET /rooms/:id
getDetailRoom(id, failAt) ==
    LET detailRoom == RoomFindOne(id)
    IN  /\ IF Falsy(id)
           THEN Answer("getDetailRoom", Json(400, "message", "'id' is required."), <<>>)
           ELSE IF failAt = 1
           THEN Answer("getDetailRoom", Json(500, "message", "Internal server error"), <<"Room.findOne">>)
           ELSE IF detailRoom = {}
           THEN Answer("getDetailRoom", Json(404, "message", "Room not found."), <<"Room.findOne">>)
           ELSE Answer("getDetailRoom", [Json(200, "body", "") EXCEPT !.row = detailRoom],
                       <<"Room.findOne">>)
        /\ UNCHANGED <<rooms, images, reviews, users, autoId>>

\* an update that refuses a quantity below what is booked on some day
updateRoom_checked(id, b, failAt) ==
    LET v == updateRoomValidation(id, b)
        detailRoom == RoomFindOne(id)
        saved == {RoomRow(r.id, b) : r \in detailRoom}
        fits == \A w \in bookings : \A r \in saved :
                    w.room_id = r.id =>
                        SumQuantity({x \in bookings : /\ x.room_id = r.id
                                                      /\ x.check_in_date <= w.check_in_date
                                                      /\ w.check_in_date < x.check_out_date})
                            <= r.quantity
    IN  /\ IF v # "ok"
           THEN Answer("updateRoom", Json(400, "message", v), <<>>) /\ UNCHANGED rooms
           ELSE IF failAt = 1
           THEN /\ Answer("updateRoom", Json(500, "message", "Internal server error"), <<"Room.findOne">>)
                /\ UNCHANGED rooms
           ELSE IF detailRoom = {}
           THEN /\ Answer("updateRoom", Json(404, "message", "Room not found."), <<"Room.findOne">>)
                /\ UNCHANGED rooms
           ELSE IF ~fits
           THEN /\ Answer("updateRoom", Json(400, "message", "quantity is below the booked quantity"),
                          <<"Room.findOne", "Booking.findAll">>)
                /\ UNCHANGED rooms
           ELSE IF failAt = 2
           THEN /\ Answer("updateRoom", Json(500, "message", "Internal server error"),
                          <<"Room.findOne", "Room.save">>)
                /\ UNCHANGED rooms
           ELSE /\ rooms' = (rooms \ detailRoom) \cup saved
                /\ Answer("updateRoom", [Json(200, "body", "") EXCEPT !.row = saved],
                          <<"Room.findOne", "Room.save">>)
        /\ UNCHANGED <<images, reviews, users, autoId>>

\* PUT /rooms/:id
updateRoom(id, b, failAt) ==
    LET v == updateRoomValidation(id, b)
        detailRoom == RoomFindOne(id)
        saved == {RoomRow(r.id, b) : r \in detailRoom}
    IN  /\ IF v # "ok"
           THEN Answer("updateRoom", Json(400, "message", v), <<>>) /\ UNCHANGED rooms
           ELSE IF failAt = 1
           THEN /\ Answer("updateRoom", Json(500, "message", "Internal server error"), <<"Room.findOne">>)
                /\ UNCHANGED rooms
           ELSE IF detailRoom = {}
           THEN /\ Answer("updateRoom", Json(404, "message", "Room not found."), <<"Room.findOne">>)
                /\ UNCHANGED rooms
           ELSE IF failAt = 2
           THEN /\ Answer("updateRoom", Json(500, "message", "Internal server error"),
                          <<"Room.findOne", "Room.save">>)
                /\ UNCHANGED rooms
           ELSE /\ rooms' = (rooms \ detailRoom) \cup saved
                /\ Answer("updateRoom", [Json(200, "body", "") EXCEPT !.row = saved],
                          <<"Room.findOne", "Room.save">>)
        /\ UNCHANGED <<images, reviews, users, autoId>>

\* UrlImageRoom.findAll({ where: { IdRoom: id } })
ImagesOfRoom(v) == {i \in images : i.IdRoom = DbId(v)}

\* the calls of a deleteRoom request that reached the image deletions: every
\* cloudinary.uploader.destroy is issued when the promises are made, and
\* image.destroy follows for each image whose external deletion succeeded
DeleteRoomCalls(n, destroys) ==
    <<"Room.findOne", "UrlImageRoom.findAll">>
        \o Repeat("cloudinary.uploader.destroy", n) \o Repeat("UrlImageRoom.destroy", destroys)

\* a handler that waits with Promise.allSettled and destroys the room
\* whatever became of the image deletions
deleteRoom_allSettled(id, failAt, failed, stage) ==
    LET deletedRoom == RoomFindOne(id)
        imagesToDelete == ImagesOfRoom(id)
        n == Cardinality(imagesToDelete)
        destroys == n - (IF stage = "cloudinary" THEN Cardinality(failed) ELSE 0)
    IN  /\ failed \subseteq imagesToDelete
        /\ IF failAt = 1
           THEN /\ Answer("deleteRoom", Json(500, "text", "Loi may chu noi bo"), <<"Room.findOne">>)
                /\ UNCHANGED <<rooms, images>>
           ELSE IF deletedRoom = {}
           THEN /\ Answer("deleteRoom", Json(404, "text", "Khong tim thay khach san"), <<"Room.findOne">>)
                /\ UNCHANGED <<rooms, images>>
           ELSE IF failAt = 2
           THEN /\ Answer("deleteRoom", Json(500, "text", "Loi may chu noi bo"),
                          <<"Room.findOne", "UrlImageRoom.findAll">>)
                /\ UNCHANGED <<rooms, images>>
           ELSE IF failAt = 3
           THEN /\ Answer("deleteRoom", Json(500, "text", "Loi may chu noi bo"),
                          Append(DeleteRoomCalls(n, destroys), "Room.destroy"))
                /\ images' = images \ (imagesToDelete \ failed)
                /\ UNCHANGED rooms
           ELSE /\ Answer("deleteRoom", Json(200, "text", "Xoa khach san va cac hinh anh lien quan thanh cong"),
                          Append(DeleteRoomCalls(n, destroys), "Room.destroy"))
                /\ images' = images \ (imagesToDelete \ failed)
                /\ rooms' = rooms \ deletedRoom
        /\ UNCHANGED <<reviews, users, autoId>>

\* DELETE /rooms/:id.  failed are the images whose deletion rejects, at the
\* stage named (the external deletion or the destruction of the record);
\* Promise.all rejects with the first of them while the deletions of the
\* other images run to their end.  The texts of the responses are written
\* without their diacritics.
deleteRoom(id, failAt, failed, stage) ==
    LET deletedRoom == RoomFindOne(id)
        imagesToDelete == ImagesOfRoom(id)
        n == Cardinality(imagesToDelete)
        destroys == n - (IF stage = "cloudinary" THEN Cardinality(failed) ELSE 0)
    IN  /\ failed \subseteq imagesToDelete
        /\ IF failAt = 1
           THEN /\ Answer("deleteRoom", Json(500, "text", "Loi may chu noi bo"), <<"Room.findOne">>)
                /\ UNCHANGED <<rooms, images>>
           ELSE IF deletedRoom = {}
           THEN /\ Answer("deleteRoom", Json(404, "text", "Khong tim thay khach san"), <<"Room.findOne">>)
                /\ UNCHANGED <<rooms, images>>
           ELSE IF failAt = 2
           THEN /\ Answer("deleteRoom", Json(500, "text", "Loi may chu noi bo"),
                          <<"Room.findOne", "UrlImageRoom.findAll">>)
                /\ UNCHANGED <<rooms, images>>
           ELSE IF failed # {}
           THEN /\ Answer("deleteRoom", Json(500, "text", "Loi may chu noi bo"),
                          DeleteRoomCalls(n, destroys))
                /\ images' = images \ (imagesToDelete \ failed)
                /\ UNCHANGED rooms
           ELSE IF failAt = 3
           THEN /\ Answer("deleteRoom", Json(500, "text", "Loi may chu noi bo"),
                          Append(DeleteRoomCalls(n, destroys), "Room.destroy"))
                /\ images' = images \ imagesToDelete
                /\ UNCHANGED rooms
           ELSE /\ Answer("deleteRoom", Json(200, "text", "Xoa khach san va cac hinh anh lien quan thanh cong"),
                          Append(DeleteRoomCalls(n, destroys), "Room.destroy"))
                /\ images' = images \ imagesToDelete
                /\ rooms' = rooms \ deletedRoom
        /\ UNCHANGED <<reviews, users, autoId>>

\* ------------------------------------------- urlImageRoom.controller.js
\* !IdRoom || isNaN(IdRoom)
IdRoomInvalid(v) == Falsy(v) \/ IsNaN(v)

IdRoomMessage == Json(400, "message", "'IdRoom' is required and must be a valid number.")
UrlRoomNotFound == Json(404, "error", "urlRoom not found")
InternalServerError == Json(500, "error", "Internal Server Error")

\* UrlImageRoom.findOne({ where: { id } }), UrlImageRoom.findByPk(id)
ImageFindOne(v) == {i \in images : i.id = DbId(v)}

\* POST /urlImageRoom
createUrlImageRoom(IdRoom, files, failAt) ==
    /\ LET n == ImageCalls(files, failAt, 0)
           made == IF ImageLoopThrows(files, failAt, 0) /\ ~files.absent THEN n - 1 ELSE n
           cs == Repeat("UrlImageRoom.create", n)
       IN  IF IdRoomInvalid(IdRoom)
           THEN /\ Answer("createUrlImageRoom", IdRoomMessage, <<>>)
                /\ UNCHANGED <<images, autoId>>
           ELSE /\ autoId["UrlImageRoom"] + made <= MaxImages + 1
                /\ images' = images \cup ImageRows(autoId["UrlImageRoom"], DbId(IdRoom), files, made)
                /\ autoId' = [autoId EXCEPT !["UrlImageRoom"] = @ + made]
                /\ IF ImageLoopThrows(files, failAt, 0)
                   THEN Answer("createUrlImageRoom", Json(500, "message", "Internal Server Error"), cs)
                   ELSE Answer("createUrlImageRoom", Json(201, "body", "successful"), cs)
    /\ UNCHANGED <<rooms, reviews, users>>

\* PUT /urlImageRoom/:id
updateUrlImageRoom(id, url, IdRoom, failAt) ==
    LET urlRoom == ImageFindOne(id)
        updated == {[i EXCEPT !.url = url.n, !.IdRoom = DbId(IdRoom)] : i \in urlRoom}
    IN  /\ IF Falsy(url)
           THEN /\ Answer("updateUrlImageRoom", Json(400, "message", "'url' is required."), <<>>)
                /\ UNCHANGED images
           ELSE IF IdRoomInvalid(IdRoom)
           THEN Answer("updateUrlImageRoom", IdRoomMessage, <<>>) /\ UNCHANGED images
           ELSE IF failAt = 1
           THEN /\ Answer("updateUrlImageRoom", InternalServerError, <<"UrlImageRoom.findByPk">>)
                /\ UNCHANGED images
           ELSE IF urlRoom = {}
           THEN /\ Answer("updateUrlImageRoom", UrlRoomNotFound, <<"UrlImageRoom.findByPk">>)
                /\ UNCHANGED images
           ELSE IF failAt = 2
           THEN /\ Answer("updateUrlImageRoom", InternalServerError,
                          <<"UrlImageRoom.findByPk", "UrlImageRoom.update">>)
                /\ UNCHANGED images
           ELSE /\ images' = (images \ urlRoom) \cup updated
                /\ Answer("updateUrlImageRoom", [Json(200, "body", "") EXCEPT !.row = updated],
                          <<"UrlImageRoom.findByPk", "UrlImageRoom.update">>)
        /\ UNCHANGED <<rooms, reviews, users, autoId>>

\* res.status(204).end()
DeletedStatus == 204

\* DELETE /urlImageRoom/:id
deleteUrlImageRoom(id, failAt) ==
    LET urlRoom == ImageFindOne(id)
    IN  /\ IF failAt = 1
           THEN /\ Answer("deleteUrlImageRoom", InternalServerError, <<"UrlImageRoom.findOne">>)
                /\ UNCHANGED images
           ELSE IF urlRoom = {}
           THEN /\ Answer("deleteUrlImageRoom", UrlRoomNotFound, <<"UrlImageRoom.findOne">>)
                /\ UNCHANGED images
           ELSE IF failAt = 2
           THEN /\ Answer("deleteUrlImageRoom", InternalServerError,
                          <<"UrlImageRoom.findOne", "cloudinary.uploader.destroy">>)
                /\ UNCHANGED images
           ELSE IF failAt = 3
           THEN /\ Answer("deleteUrlImageRoom", InternalServerError,
                          <<"UrlImageRoom.findOne", "cloudinary.uploader.destroy", "UrlImageRoom.destroy">>)
                /\ UNCHANGED images
           ELSE /\ images' = images \ urlRoom
                /\ Answer("deleteUrlImageRoom", Json(DeletedStatus, "none", ""),
                          <<"UrlImageRoom.findOne", "cloudinary.uploader.destroy", "UrlImageRoom.destroy">>)
        /\ UNCHANGED <<rooms, reviews, users, autoId>>

\* ---------------------------------------------- reviews.controllers.js
\* typeof v === "string"
IsString(v) == v.t \in {"text", "numstr", "date", "email", "phone", "password", "short", "empty"}

\* a string of white space only
Blank == Text(0)

\* !v || typeof v !== "string" || v.trim() === ""
NotNonEmptyString(v) == Falsy(v) \/ ~IsString(v) \/ v = Blank

GoodReview == [rating |-> Num(5), description |-> Text(1), hotelId |-> Num(1), guestId |-> Num(1)]

ReviewBodies ==
    {GoodReview, [GoodReview EXCEPT !.rating = Num(0)], [GoodReview EXCEPT !.rating = Undef],
     [GoodReview EXCEPT !.guestId = Undef], [GoodReview EXCEPT !.hotelId = Undef],
     [GoodReview EXCEPT !.description = Undef], [GoodReview EXCEPT !.description = Blank],
     [GoodReview EXCEPT !.description = Num(1)]}

\* the validation of createReview
createReviewValidation(b) ==
    IF Falsy(b.guestId) \/ Falsy(b.hotelId) \/ b.rating = Undef
    THEN "All fields are required"
    ELSE IF NotNonEmptyString(b.description)
    THEN "'description' must be a non-empty string."
    ELSE "ok"

\* the row Reviews.create persists; name, address, star and price are the
\* attributes updateReview assigns
ReviewRow(id, b) ==
    [id |-> id, rating |-> b.rating.n, description |-> b.description.n,
     hotelId |-> DbId(b.hotelId), guestId |-> DbId(b.guestId),
     name |-> Undef, address |-> Undef, star |-> Undef, price |-> Undef]

\* Reviews.findOne({ where: { id } })
ReviewFindOne(v) == {r \in reviews : r.id = DbId(v)}

\* POST /reviews
createReview(b, failAt) ==
    /\ LET v == createReviewValidation(b)
           newReview == ReviewRow(autoId["Reviews"], b)
       IN  IF v # "ok"
           THEN /\ Answer("createReview", Json(400, "error", v), <<>>)
                /\ UNCHANGED <<reviews, autoId>>
           ELSE IF failAt = 1
           THEN /\ Answer("createReview", InternalServerError, <<"Reviews.create">>)
                /\ UNCHANGED <<reviews, autoId>>
           ELSE /\ autoId["Reviews"] <= MaxReviews
                /\ reviews' = reviews \cup {newReview}
                /\ autoId' = [autoId EXCEPT !["Reviews"] = @ + 1]
                /\ Answer("createReview", [Json(201, "body", "") EXCEPT !.row = {newReview}],
                          <<"Reviews.create">>)
    /\ UNCHANGED <<rooms, images, users>>

\* GET /reviews/:id: the row, or null, is sent with 200
getDetailReview(id, failAt) ==
    LET detailReview == ReviewFindOne(id)
    IN  /\ IF failAt = 1
           THEN Answer("getDetailReview", Json(500, "body", "error"), <<"Reviews.findOne">>)
           ELSE Answer("getDetailReview", [Json(200, "body", "") EXCEPT !.row = detailReview],
                       <<"Reviews.findOne">>)
        /\ UNCHANGED <<rooms, images, reviews, users, autoId>>

GoodReviewUpdate == [name |-> Text(1), address |-> Text(1), star |-> Num(5), price |-> Num(0)]

ReviewUpdates ==
    {GoodReviewUpdate, [GoodReviewUpdate EXCEPT !.star = Num(1), !.price = Num(100)],
     [GoodReviewUpdate EXCEPT !.name = Undef], [GoodReviewUpdate EXCEPT !.address = Blank],
     [GoodReviewUpdate EXCEPT !.star = Num(6)], [GoodReviewUpdate EXCEPT !.star = NumStr(5)],
     [GoodReviewUpdate EXCEPT !.star = Undef], [GoodReviewUpdate EXCEPT !.price = Num(-1)],
     [GoodReviewUpdate EXCEPT !.price = Undef]}

\* the validation of updateReview
updateReviewValidation(b) ==
    IF NotNonEmptyString(b.name)
    THEN "'name' is required and must be a non-empty string."
    ELSE IF NotNonEmptyString(b.address)
    THEN "'address' is required and must be a non-empty string."
    ELSE IF b.star = Undef \/ b.star.t # "num" \/ b.star.n < 1 \/ b.star.n > 5
    THEN "'star' must be a number between 1 and 5."
    ELSE IF b.price = Undef \/ b.price.t # "num" \/ b.price.n < 0
    THEN "'price' must be a non-negative number."
    ELSE "ok"

\* PUT /reviews/:id
updateReview(id, b, failAt) ==
    LET v == updateReviewValidation(b)
        detailReview == ReviewFindOne(id)
        saved == {[r EXCEPT !.name = b.name, !.address = b.address, !.star = b.star,
                            !.price = b.price] : r \in detailReview}
    IN  /\ IF v # "ok"
           THEN Answer("updateReview", Json(400, "error", v), <<>>) /\ UNCHANGED reviews
           ELSE IF failAt = 1
           THEN /\ Answer("updateReview", InternalServerError, <<"Reviews.findOne">>)
                /\ UNCHANGED reviews
           ELSE IF detailReview = {}
           THEN /\ Answer("updateReview", Json(404, "error", "Review not found"), <<"Reviews.findOne">>)
                /\ UNCHANGED reviews
           ELSE IF failAt = 2
           THEN /\ Answer("updateReview", InternalServerError, <<"Reviews.findOne", "Reviews.save">>)
                /\ UNCHANGED reviews
           ELSE /\ reviews' = (reviews \ detailReview) \cup saved
                /\ Answer("updateReview", [Json(200, "body", "") EXCEPT !.row = saved],
                          <<"Reviews.findOne", "Reviews.save">>)
        /\ UNCHANGED <<rooms, images, users, autoId>>

\* DELETE /reviews/:id: destroy is called on what findOne returned, which
\* throws a TypeError when that is null
deleteReview(id, failAt) ==
    LET deletedReview == ReviewFindOne(id)
    IN  /\ IF failAt = 1 \/ deletedReview = {}
           THEN /\ Answer("deleteReview", Json(500, "body", "error"), <<"Reviews.findOne">>)
                /\ UNCHANGED reviews
           ELSE IF failAt = 2
           THEN /\ Answer("deleteReview", Json(500, "body", "error"),
                          <<"Reviews.findOne", "Reviews.destroy">>)
                /\ UNCHANGED reviews
           ELSE /\ reviews' = reviews \ deletedReview
                /\ Answer("deleteReview", Json(200, "body", "Successful"),
                          <<"Reviews.findOne", "Reviews.destroy">>)
        /\ UNCHANGED <<rooms, images, users, autoId>>

\* GET /getallreviews
getFullReview(failAt) ==
    /\ IF failAt = 1
       THEN Answer("getFullReview", Json(500, "message", "Internal Server Error"), <<"Reviews.findAll">>)
       ELSE Answer("getFullReview", [Json(200, "body", "") EXCEPT !.row = reviews], <<"Reviews.findAll">>)
    /\ UNCHANGED <<rooms, images, reviews, users, autoId>>

\* ------------------------------------------------- user.controllers.js
\* strings by what the checks of the user handlers tell apart: an address
\* matching /^\S+@\S+\.\S+$/, a string of 10 to 15 digits, a string of six or
\* more characters that is neither, and a string of fewer than six characters
Email(k) == [t |-> "email", n |-> k]
Phone(k) == [t |-> "phone", n |-> k]
Password(k) == [t |-> "password", n |-> k]
Short(k) == [t |-> "short", n |-> k]

\* v.length < 6
ShorterThanSix(v) == v.t \in {"short", "numstr", "text", "empty"}

\* bcrypt.hashSync(password, salt): whatever the salt, the hash is no
\* password and compares equal to the password it was made from only
HashSync(v) == [t |-> "hash", n |-> v.n]

\* a comparison that accepts every password
CompareSync_always(v, stored) == TRUE

\* bcrypt.compareSync(password, user.password)
CompareSync(v, stored) == stored.t = "hash" /\ stored.n = v.n

\* the columns of a User row that the handlers compare
UserRow(id, b) ==
    [id |-> id, email |-> b.email.n, numberPhone |-> b.numberPhone.n,
     password |-> HashSync(b.password)]

GoodUser == [name |-> Text(1), email |-> Email(1), password |-> Password(1),
             numberPhone |-> Phone(1)]

RegisterBodies ==
    {[GoodUser EXCEPT !.email = Email(e), !.numberPhone = Phone(f)] : e \in 1..MaxUsers, f \in 1..MaxUsers}
    \cup {[GoodUser EXCEPT !.email = Email(MaxUsers), !.numberPhone = Phone(MaxUsers),
                           !.password = Password(2)]}
    \cup {[GoodUser EXCEPT !.name = Undef], [GoodUser EXCEPT !.email = Undef],
          [GoodUser EXCEPT !.email = Text(1)], [GoodUser EXCEPT !.password = Undef],
          [GoodUser EXCEPT !.password = Short(1)], [GoodUser EXCEPT !.password = Num(123456)],
          [GoodUser EXCEPT !.numberPhone = Undef], [GoodUser EXCEPT !.numberPhone = Text(1)]}

\* the validation of register
registerValidation(b) ==
    IF NotNonEmptyString(b.name)
    THEN "'name' is required and must be a non-empty string."
    ELSE IF Falsy(b.email) \/ b.email.t # "email"
    THEN "'email' is required and must be a valid email address."
    ELSE IF Falsy(b.password) \/ ~IsString(b.password) \/ ShorterThanSix(b.password)
    THEN "'password' is required and must be at least 6 characters long."
    ELSE IF Falsy(b.numberPhone) \/ b.numberPhone.t # "phone"
    THEN "'numberPhone' is required and must be a valid phone number."
    ELSE "ok"

\* a lookup by email alone
ExistingUser_emailOnly(b) == {u \in users : u.email = b.email.n}

\* User.findOne({ where: { [Op.or]: [{ email }, { numberPhone }] } })
ExistingUser(b) == {u \in users : u.email = b.email.n \/ u.numberPhone = b.numberPhone.n}

AlreadyExists == Json(400, "error", "Email or phone number already exists")

\* POST /register
register(b, failAt) ==
    /\ LET v == registerValidation(b)
           newUser == UserRow(autoId["User"], b)
       IN  IF v # "ok"
           THEN /\ Answer("register", Json(400, "error", v), <<>>)
                /\ UNCHANGED <<users, autoId>>
           ELSE IF failAt = 1
           THEN /\ Answer("register", InternalServerError, <<"User.findOne">>)
                /\ UNCHANGED <<users, autoId>>
           ELSE IF ExistingUser(b) # {}
           THEN /\ Answer("register", AlreadyExists, <<"User.findOne">>)
                /\ UNCHANGED <<users, autoId>>
           ELSE IF failAt = 2
           THEN /\ Answer("register", InternalServerError,
                          <<"User.findOne", "bcrypt.hashSync", "User.create">>)
                /\ UNCHANGED <<users, autoId>>
           ELSE /\ autoId["User"] <= MaxUsers
                /\ users' = users \cup {newUser}
                /\ autoId' = [autoId EXCEPT !["User"] = @ + 1]
                /\ Answer("register", [Json(201, "body", "") EXCEPT !.row = {newUser}],
                          <<"User.findOne", "bcrypt.hashSync", "User.create">>)
    /\ UNCHANGED <<rooms, images, reviews>>

\* User.findOne({ where: { email } })
UserByEmail(v) == {u \in users : v.t = "email" /\ u.email = v.n}

LoginBodies ==
    {[email |-> e, password |-> w] :
        e \in {Email(k) : k \in 1..MaxUsers} \cup {Undef},
        w \in {Password(1), Password(2), Undef}}

\* POST /login.  The query with an undefined email and the comparison of an
\* undefined password throw into the catch.
login(b, failAt) ==
    LET user == UserByEmail(b.email)
    IN  /\ IF failAt = 1 \/ b.email = Undef
           THEN Answer("login", InternalServerError, <<"User.findOne">>)
           ELSE IF user = {}
           THEN Answer("login", Json(404, "message", "khong co nguoi dung nay"), <<"User.findOne">>)
           ELSE IF ~IsString(b.password)
           THEN Answer("login", InternalServerError, <<"User.findOne", "bcrypt.compareSync">>)
           ELSE IF CompareSync(b.password, (CHOOSE u \in user : TRUE).password)
           THEN Answer("login", [Json(200, "token", "successful") EXCEPT !.row = user],
                       <<"User.findOne", "bcrypt.compareSync", "jwt.sign">>)
           ELSE Answer("login", Json(401, "message", "dang nhap that bai, kiem tra lai mat khau"),
                       <<"User.findOne", "bcrypt.compareSync">>)
        /\ UNCHANGED <<rooms, images, reviews, users, autoId>>

\* User.findOne({ where: { id } }), User.findByPk(id)
UserFindOne(v) == {u \in users : u.id = DbId(v)}

\* GET /users/:id
getDetailUser(id, failAt) ==
    LET detailUser == UserFindOne(id)
    IN  /\ IF Falsy(id)
           THEN Answer("getDetailUser", Json(400, "error", "'id' is require."), <<>>)
           ELSE IF failAt = 1
           THEN Answer("getDetailUser", InternalServerError, <<"User.findOne">>)
           ELSE IF detailUser = {}
           THEN Answer("getDetailUser", Json(404, "error", "User not found."), <<"User.findOne">>)
           ELSE Answer("getDetailUser", [Json(200, "body", "") EXCEPT !.row = detailUser],
                       <<"User.findOne">>)
        /\ UNCHANGED <<rooms, images, reviews, users, autoId>>

\* DELETE /users/:id
deleteUser(id, failAt) ==
    LET userToDelete == UserFindOne(id)
    IN  /\ IF failAt = 1
           THEN Answer("deleteUser", InternalServerError, <<"User.findOne">>) /\ UNCHANGED users
           ELSE IF userToDelete = {}
           THEN /\ Answer("deleteUser", Json(404, "error", "User not found"), <<"User.findOne">>)
                /\ UNCHANGED users
           ELSE IF failAt = 2
           THEN /\ Answer("deleteUser", InternalServerError, <<"User.findOne", "User.destroy">>)
                /\ UNCHANGED users
           ELSE /\ users' = users \ userToDelete
                /\ Answer("deleteUser", Json(200, "body", "Successful"),
                          <<"User.findOne", "User.destroy">>)
        /\ UNCHANGED <<rooms, images, reviews, autoId>>

\* the body of PUT /users/:id; the fields the handler only validates and
\* copies (birthDate, gender, type, cccd, address) included
NoEdit == [name |-> Undef, email |-> Undef, password |-> Undef, numberPhone |-> Undef,
           birthDate |-> Undef, gender |-> Undef, type |-> Undef, cccd |-> Undef,
           address |-> Undef]

\* gender !== "male" && gender !== "female", type !== "user" && type !== "admin":
\* Text(1) and Text(2) stand for the two accepted words
NeitherWord(v) == ~(v.t = "text" /\ v.n \in {1, 2})

\* v && (typeof v !== "string" || v.trim() === "")
GivenButBlank(v) == ~Falsy(v) /\ (~IsString(v) \/ v = Blank)

\* the validation of editUser: a field is checked only when it is given
editUserValidation(b) ==
    IF GivenButBlank(b.name)
    THEN "'name' must be a non-empty string."
    ELSE IF ~Falsy(b.email) /\ b.email.t # "email"
    THEN "'email' must be a valid email address."
    ELSE IF ~Falsy(b.password) /\ (~IsString(b.password) \/ ShorterThanSix(b.password))
    THEN "'password' must be at least 6 characters long."
    ELSE IF ~Falsy(b.numberPhone) /\ b.numberPhone.t # "phone"
    THEN "'numberPhone' must be a valid phone number."
    ELSE IF ~Falsy(b.birthDate) /\ InvalidDate(b.birthDate)
    THEN "'birthDate' must be a valid date."
    ELSE IF ~Falsy(b.gender) /\ NeitherWord(b.gender)
    THEN "'gender' must be either 'male' or 'female'."
    ELSE IF ~Falsy(b.type) /\ NeitherWord(b.type)
    THEN "'type' must be either 'user' or 'admin'."
    ELSE IF GivenButBlank(b.cccd)
    THEN "'cccd' must be a non-empty string."
    ELSE IF GivenButBlank(b.address)
    THEN "'address' must be a non-empty string."
    ELSE "ok"

\* an assignment that hashes the password it is given
EditedRow_hashed(u, b) ==
    [u EXCEPT !.email = IF Falsy(b.email) THEN @ ELSE b.email.n,
              !.password = IF Falsy(b.password) THEN @ ELSE HashSync(b.password),
              !.numberPhone = IF Falsy(b.numberPhone) THEN @ ELSE b.numberPhone.n]

\* if (email) detailUser.email = email; if (password) detailUser.password =
\* password; if (numberPhone) detailUser.numberPhone = numberPhone: the
\* password is assigned as it was sent
EditedRow(u, b) ==
    [u EXCEPT !.email = IF Falsy(b.email) THEN @ ELSE b.email.n,
              !.password = IF Falsy(b.password) THEN @ ELSE b.password,
              !.numberPhone = IF Falsy(b.numberPhone) THEN @ ELSE b.numberPhone.n]

\* PUT /users/:id
editUser(id, b, failAt) ==
    LET v == editUserValidation(b)
        detailUser == UserFindOne(id)
        updateUser == {EditedRow(u, b) : u \in detailUser}
    IN  /\ IF v # "ok"
           THEN Answer("editUser", Json(400, "error", v), <<>>) /\ UNCHANGED users
           ELSE IF failAt = 1
           THEN Answer("editUser", InternalServerError, <<"User.findOne">>) /\ UNCHANGED users
           ELSE IF detailUser = {}
           THEN /\ Answer("editUser", Json(404, "message", "User with id ${userId} not found"),
                          <<"User.findOne">>)
                /\ UNCHANGED users
           ELSE IF failAt = 2
           THEN /\ Answer("editUser", InternalServerError, <<"User.findOne", "User.save">>)
                /\ UNCHANGED users
           ELSE /\ users' = (users \ detailUser) \cup updateUser
                /\ Answer("editUser", [Json(200, "updateUser", "") EXCEPT !.row = updateUser],
                          <<"User.findOne", "User.save">>)
        /\ UNCHANGED <<rooms, images, reviews, autoId>>

\* !v || typeof v !== "string" || v.length < 6
NotSixCharacters(v) == Falsy(v) \/ ~IsString(v) \/ ShorterThanSix(v)

\* the validation of updatePassword, which comes before the try block
updatePasswordValidation(b) ==
    IF Falsy(b.userId)
    THEN "'userId' is required."
    ELSE IF NotSixCharacters(b.currentPassword)
    THEN "'currentPassword' is required and must be at least 6 characters long."
    ELSE IF NotSixCharacters(b.newPassword)
    THEN "'newPassword' is required and must be at least 6 characters long."
    ELSE "ok"

\* a check of the current password that lets every password through
isPasswordValid_any(b, user) == TRUE

\* bcrypt.compareSync(currentPassword, user.password)
isPasswordValid(b, user) == CompareSync(b.currentPassword, user.password)

\* POST /update-password
updatePassword(b, failAt) ==
    LET v == updatePasswordValidation(b)
        user == UserFindOne(b.userId)
        hashedNewPassword == HashSync(b.newPassword)
        updated == {[u EXCEPT !.password = hashedNewPassword] : u \in user}
    IN  /\ IF v # "ok"
           THEN Answer("updatePassword", Json(400, "error", v), <<>>) /\ UNCHANGED users
           ELSE IF failAt = 1
           THEN /\ Answer("updatePassword", InternalServerError, <<"User.findByPk">>)
                /\ UNCHANGED users
           ELSE IF user = {}
           THEN /\ Answer("updatePassword", Json(404, "error", "User not found"), <<"User.findByPk">>)
                /\ UNCHANGED users
           ELSE IF ~isPasswordValid(b, CHOOSE u \in user : TRUE)
           THEN /\ Answer("updatePassword", Json(401, "error", "Invalid current password"),
                          <<"User.findByPk", "bcrypt.compareSync">>)
                /\ UNCHANGED users
           ELSE IF failAt = 2
           THEN /\ Answer("updatePassword", InternalServerError,
                          <<"User.findByPk", "bcrypt.compareSync", "bcrypt.hashSync", "User.update">>)
                /\ UNCHANGED users
           ELSE /\ users' = (users \ user) \cup updated
                /\ Answer("updatePassword", Json(200, "message", "Password updated successfully"),
                          <<"User.findByPk", "bcrypt.compareSync", "bcrypt.hashSync", "User.update">>)
        /\ UNCHANGED <<rooms, images, reviews, autoId>>

\* ------------------------------------------------- coupons controller
GoodCoupon == [code |-> Text(1), percent |-> Num(10), begin |-> DateStr(1), end |-> DateStr(2)]

\* req.body of POST /coupons
CouponBodies ==
    {[GoodCoupon EXCEPT !.percent = Num(k), !.begin = d[1], !.end = d[2]] :
        k \in {1, 100}, d \in ValidPairs}
    \cup {[GoodCoupon EXCEPT !.code = v] : v \in {Undef, EmptyStr}}
    \cup {[GoodCoupon EXCEPT !.percent = v] : v \in {Undef, Num(0), Num(-1), Num(101), NumStr(10)}}
    \cup {[GoodCoupon EXCEPT !.begin = d[1], !.end = d[2]] :
            d \in {<<DateStr(1), DateStr(1)>>, <<DateStr(2), DateStr(1)>>, <<Undef, DateStr(2)>>,
                   <<DateStr(1), Undef>>, <<Text(1), DateStr(2)>>, <<DateStr(1), Text(1)>>}}

\* a validation that accepts any positive percent
createValidation_noUpperBound(b) ==
    IF Falsy(b.code)
    THEN "'code' is required and must not be null."
    ELSE IF b.percent.t # "num" \/ b.percent.n <= 0
    THEN "'percent' must be a number between 1 and 100."
    ELSE IF Falsy(b.begin) \/ Falsy(b.end) \/ InvalidDate(b.begin) \/ InvalidDate(b.end)
    THEN "'begin' and 'end' must be valid dates."
    ELSE IF DateGE(b.begin, b.end)
    THEN "'begin' date must be before 'end' date."
    ELSE "ok"

\* the validation of create, which comes before the try block
createValidation(b) ==
    IF Falsy(b.code)
    THEN "'code' is required and must not be null."
    ELSE IF b.percent.t # "num" \/ b.percent.n <= 0 \/ b.percent.n > 100
    THEN "'percent' must be a number between 1 and 100."
    ELSE IF Falsy(b.begin) \/ Falsy(b.end) \/ InvalidDate(b.begin) \/ InvalidDate(b.end)
    THEN "'begin' and 'end' must be valid dates."
    ELSE IF DateGE(b.begin, b.end)
    THEN "'begin' date must be before 'end' date."
    ELSE "ok"

\* the row Coupons.create persists: the values of the request as they came
CouponRow(id, b) == [id |-> id, code |-> b.code, percent |-> b.percent,
                     begin |-> b.begin, end |-> b.end]

\* POST /coupons
create(b, failAt) ==
    LET v == createValidation(b)
        newCoupon == CouponRow(autoId["Coupons"], b)
    IN  /\ IF v # "ok"
           THEN /\ Reply("create", Json(400, "error", v), <<>>)
                /\ UNCHANGED <<coupons, autoId>>
           ELSE IF failAt = 1
           THEN /\ Reply("create", InternalServerError, <<"Coupons.create">>)
                /\ UNCHANGED <<coupons, autoId>>
           ELSE /\ autoId["Coupons"] <= MaxCoupons
                /\ coupons' = coupons \cup {newCoupon}
                /\ autoId' = [autoId EXCEPT !["Coupons"] = @ + 1]
                /\ Reply("create", [Json(201, "body", "") EXCEPT !.row = {newCoupon}],
                         <<"Coupons.create">>)
        /\ UNCHANGED <<rooms, images, reviews, users>>

\* GET /coupons
getAllCoupon(failAt) ==
    /\ IF failAt = 1
       THEN Reply("getAllCoupon", Json(500, "message", "Internal Server Error"), <<"Coupons.findAll">>)
       ELSE Reply("getAllCoupon", [Json(200, "body", "") EXCEPT !.row = coupons], <<"Coupons.findAll">>)
    /\ UNCHANGED <<rooms, images, reviews, users, autoId, coupons>>

\* ------------------------------------------------------------ specifications
Step(p) ==
    \/ \E b \in BookingBodies : createBooking(p, b)
    \/ createBooking_findOne(p)
    \/ createBooking_sum(p)
    \/ createBooking_create(p)
    \/ createBooking_catch(p)
    \/ \E q \in AvailabilityQueries : getAvailability(p, q)
    \/ getAvailability_findOne(p)
    \/ getAvailability_sum(p)
    \/ getAvailability_catch(p)
    \/ \E id \in 1..MaxBookings : deleteBooking(p, id)
    \/ deleteBooking_destroy(p)
    \/ deleteBooking_catch(p)

\* requests are handled one at a time: the database calls of one request
\* are never interleaved with those of another
Next == Step(1)

Spec == Init /\ [][Next]_vars

\* the bodies and queries of the five booking handlers taken together: stays
\* in room 1 that end on the last day, a body and a query with a field absent,
\* and a room that does not exist
FewBodies ==
    {[GoodBody EXCEPT !.check_in_date = DateStr(a), !.check_out_date = DateStr(MaxDay),
                      !.quantity = Num(q)] : a \in 1..(MaxDay - 1), q \in 1..MaxQty}
    \cup {[GoodBody EXCEPT !.full_name = Undef], [GoodBody EXCEPT !.room_id = Num(3)]}

FewQueries ==
    {[GoodQuery EXCEPT !.check_out_date = DateStr(MaxDay), !.quantity = NumStr(q)] : q \in 1..MaxQty}
    \cup {[GoodQuery EXCEPT !.quantity = Undef], [GoodQuery EXCEPT !.room_id = NumStr(3)]}

BookingStep(p) ==
    \/ \E b \in FewBodies : createBooking(p, b)
    \/ createBooking_findOne(p)
    \/ createBooking_sum(p)
    \/ createBooking_create(p)
    \/ createBooking_catch(p)
    \/ \E q \in FewQueries : getAvailability(p, q)
    \/ getAvailability_findOne(p)
    \/ getAvailability_sum(p)
    \/ getAvailability_catch(p)
    \/ \E q \in GetAllQueries : getAllBooking(p, q)
    \/ getAllBooking_findAll(p)
    \/ getAllBooking_catch(p)
    \/ \E id \in 1..MaxBookings : getDetailBooking(p, id)
    \/ getDetailBooking_findOne(p)
    \/ getDetailBooking_catch(p)
    \/ \E id \in 1..MaxBookings : deleteBooking(p, id)
    \/ deleteBooking_destroy(p)
    \/ deleteBooking_catch(p)

\* the five booking handlers, one request at a time
BookingNext == BookingStep(1)

BookingSpec == Init /\ [][BookingNext]_vars

\* a call that process p awaits returns or rejects
BookingReturn(p) == pc[p] # "idle" /\ BookingStep(p)

\* every awaited database call eventually returns or fails
FairBookingSpec == BookingSpec /\ WF_vars(BookingReturn(1))

\* createBooking requests for room 1 that pass validation; every stay ends on
\* the last day, so that any two of them overlap
RaceBodies ==
    {[GoodBody EXCEPT !.check_in_date = DateStr(a), !.check_out_date = DateStr(MaxDay),
                      !.quantity = Num(q)] : a \in 1..(MaxDay - 1), q \in 1..MaxQty}

\* two createBooking requests in flight at once, interleaved at their awaits
RaceStep(p) ==
    \/ \E b \in RaceBodies : createBooking(p, b)
    \/ createBooking_findOne(p)
    \/ createBooking_sum(p)
    \/ createBooking_create(p)

RaceNext == \E p \in Procs : RaceStep(p)

RaceSpec == Init /\ [][RaceNext]_vars

\* a database call fails only in requests that pass validation; the malformed
\* bodies come with one uploaded file
RoomRequests ==
    {<<b, [absent |-> FALSE, list |-> <<1>>], 0>> : b \in RoomBodies}
    \cup UNION {{<<GoodRoomBody, f, k>> : k \in 0..(1 + Len(f.list))} : f \in Files}

ImageRequests ==
    {<<r, [absent |-> FALSE, list |-> <<1>>], 0>> : r \in {Undef, Text(1)}}
    \cup UNION {{<<NumStr(1), f, k>> : k \in 0..Len(f.list)} : f \in Files}

\* room 1 is stored from the start, the other room only once createRoom made it
RoomIds == {NumStr(1), NumStr(2 + MaxRooms)}

RoomUpdates ==
    {<<b, 0>> : b \in RoomBodies} \cup {<<GoodRoomBody, k>> : k \in 1..2}

ImageUpdates ==
    {<<Undef, NumStr(1), 0>>, <<Text(2), Undef, 0>>, <<Text(2), Text(1), 0>>}
    \cup {<<Text(2), NumStr(1), k>> : k \in 0..2}

\* the room and room-image handlers, one request at a time
RoomNext ==
    \/ \E r \in RoomRequests : createRoom(r[1], r[2], r[3])
    \/ \E id \in RoomIds : \E failAt \in 0..1 : getDetailRoom(id, failAt)
    \/ \E id \in RoomIds : \E u \in RoomUpdates : updateRoom(id, u[1], u[2])
    \/ \E r \in ImageRequests : createUrlImageRoom(r[1], r[2], r[3])
    \/ \E id \in Ids(MaxImages) : \E u \in ImageUpdates : updateUrlImageRoom(id, u[1], u[2], u[3])
    \/ \E id \in Ids(MaxImages) : \E failAt \in 0..3 : deleteUrlImageRoom(id, failAt)

RoomSpec == Init /\ [][RoomNext]_vars

\* rooms and images are created by requests that succeed or leave a room
\* behind, and rooms are deleted with every failure of deleteRoom
DeleteRoomNext ==
    \/ \E f \in Files : createRoom(GoodRoomBody, f, 0)
    \/ \E f \in Files : createUrlImageRoom(NumStr(1), f, 0)
    \/ \E id \in RoomIds : \E failAt \in 0..3 : deleteRoom(id, failAt, {}, "none")
    \/ \E id \in RoomIds : \E failed \in SUBSET ImagesOfRoom(id) \ {{}} :
          \E stage \in {"cloudinary", "destroy"} : deleteRoom(id, 0, failed, stage)

DeleteRoomSpec == Init /\ [][DeleteRoomNext]_vars

\* a database call fails only in requests that pass validation
ReviewUpdateRequests == {<<b, 0>> : b \in ReviewUpdates} \cup {<<GoodReviewUpdate, k>> : k \in 1..2}

\* the review handlers, one request at a time
ReviewNext ==
    \/ \E b \in ReviewBodies : createReview(b, 0)
    \/ createReview(GoodReview, 1)
    \/ \E id \in Ids(MaxReviews) : \E failAt \in 0..1 : getDetailReview(id, failAt)
    \/ \E id \in Ids(MaxReviews) : \E u \in ReviewUpdateRequests : updateReview(id, u[1], u[2])
    \/ \E id \in Ids(MaxReviews) : \E failAt \in 0..2 : deleteReview(id, failAt)
    \/ \E failAt \in 0..1 : getFullReview(failAt)

ReviewSpec == Init /\ [][ReviewNext]_vars

\* a database call fails only in requests that pass validation
RegisterRequests == {<<b, 0>> : b \in RegisterBodies} \cup {<<GoodUser, k>> : k \in 1..2}

\* register, login and the handlers that read or delete one user, one
\* request at a time
UserNext ==
    \/ \E r \in RegisterRequests : register(r[1], r[2])
    \/ \E b \in LoginBodies : \E failAt \in 0..1 : login(b, failAt)
    \/ \E id \in Ids(MaxUsers) : \E failAt \in 0..1 : getDetailUser(id, failAt)
    \/ \E id \in Ids(MaxUsers) : \E failAt \in 0..2 : deleteUser(id, failAt)

UserSpec == Init /\ [][UserNext]_vars

\* register bodies that differ in the user they name, one that fails field
\* validation, and the good body with a database call that fails
AccountRegisters ==
    {<<[GoodUser EXCEPT !.email = Email(e), !.numberPhone = Phone(e)], 0>> : e \in 1..MaxUsers}
    \cup {<<[GoodUser EXCEPT !.password = Short(1)], 0>>}
    \cup {<<GoodUser, k>> : k \in 1..2}

\* editUser bodies: nothing given, a new password, a new email, fields that
\* fail validation, and a new password with a database call that fails
AccountEdits ==
    {<<NoEdit, 0>>, <<[NoEdit EXCEPT !.email = Email(MaxUsers)], 0>>,
     <<[NoEdit EXCEPT !.password = Short(1)], 0>>, <<[NoEdit EXCEPT !.gender = Text(3)], 0>>}
    \cup {<<[NoEdit EXCEPT !.password = Password(2)], k>> : k \in 0..2}

\* updatePassword bodies: every stored user and one that is not, with the
\* current and the new password right, wrong or too short; a database call
\* fails only in a body that passes validation
PasswordRequests ==
    {<<[userId |-> Num(k), currentPassword |-> c, newPassword |-> w], 0>> :
        k \in 1..MaxUsers, c \in {Password(1), Password(2)}, w \in {Password(1), Password(2)}}
    \cup {<<[userId |-> u, currentPassword |-> c, newPassword |-> w], 0>> :
            u \in {Undef}, c \in {Password(1)}, w \in {Password(2)}}
    \cup {<<[userId |-> Num(1), currentPassword |-> Short(1), newPassword |-> Password(2)], 0>>,
          <<[userId |-> Num(1), currentPassword |-> Password(1), newPassword |-> Short(1)], 0>>,
          <<[userId |-> Num(1), currentPassword |-> Password(1), newPassword |-> Undef], 0>>}
    \cup {<<[userId |-> Num(1), currentPassword |-> Password(1), newPassword |-> Password(2)], k>> :
            k \in 1..2}

\* the handlers that write or read a stored password, one request at a time
AccountNext ==
    \/ \E r \in AccountRegisters : register(r[1], r[2])
    \/ \E id \in Ids(MaxUsers) : \E e \in AccountEdits : editUser(id, e[1], e[2])
    \/ \E r \in PasswordRequests : updatePassword(r[1], r[2])
    \/ \E b \in LoginBodies : \E failAt \in 0..1 : login(b, failAt)

AccountSpec == Init /\ [][AccountNext]_vars


\* the coupon handlers that create and list, one request at a time; the
\* database call fails only in a request that passes validation
CouponNext ==
    \/ \E b \in CouponBodies : create(b, 0)
    \/ create(GoodCoupon, 1)
    \/ \E failAt \in 0..1 : getAllCoupon(failAt)

CouponSpec == Init /\ [][CouponNext]_vars

\* requests that pass validation, for every stay in room 1 and for the
\* whole calendar in room 2, none of whose database calls fails
StayStep(p) ==
    \/ \E d \in ValidPairs : \E q \in 1..MaxQty :
          createBooking(p, [GoodBody EXCEPT !.check_in_date = d[1], !.check_out_date = d[2],
                                            !.quantity = Num(q)])
    \/ createBooking(p, [GoodBody EXCEPT !.room_id = Num(2), !.check_out_date = DateStr(MaxDay)])
    \/ createBooking_findOne(p)
    \/ createBooking_sum(p)
    \/ createBooking_create(p)
    \/ \E d \in ValidPairs : \E q \in 1..MaxQty :
          getAvailability(p, [GoodQuery EXCEPT !.check_in_date = d[1], !.check_out_date = d[2],
                                              !.quantity = NumStr(q)])
    \/ getAvailability(p, [GoodQuery EXCEPT !.room_id = NumStr(2), !.check_out_date = DateStr(MaxDay)])
    \/ getAvailability_findOne(p)
    \/ getAvailability_sum(p)
    \/ \E id \in 1..MaxBookings : deleteBooking(p, id)
    \/ deleteBooking_destroy(p)

\* one request at a time
StayNext == StayStep(1)

StaySpec == Init /\ [][StayNext]_vars

\* updateRoom requests for room 1 and for a room that is not stored, with
\* every quantity up to MaxQty; a database call fails only for room 1
InventoryUpdates ==
    {<<NumStr(i), [GoodRoomBody EXCEPT !.quantity = NumStr(q)], 0>> : i \in {1, 3}, q \in 0..MaxQty}
    \cup {<<NumStr(1), [GoodRoomBody EXCEPT !.quantity = Undef], 0>>}
    \cup {<<NumStr(1), GoodRoomBody, k>> : k \in 1..2}

\* bookings are admitted one request at a time while room quantities change
InventoryNext ==
    \/ \E b \in RaceBodies : createBooking(1, b)
    \/ createBooking_findOne(1)
    \/ createBooking_sum(1)
    \/ createBooking_create(1)
    \/ \E u \in InventoryUpdates : updateRoom(u[1], u[2], u[3])

InventorySpec == Init /\ [][InventoryNext]_vars

\* ------------------------------------------------------------------ claims
\* every instant a stored date can denote, the zero date included
Instants == 0..MaxDay

\* the stored bookings of room rid whose interval [check_in_date, check_out_date) contains t
BookedOn(store, rid, t) ==
    {b \in store : b.room_id = rid /\ b.check_in_date <= t /\ t < b.check_out_date}

\* C1: with requests handled one at a time and Room.quantity never changed,
\* after any sequence of createBooking and deleteBooking calls the quantity
\* booked on any day of any room is at most the room's quantity.
C1_InventoryBound ==
    \A r \in rooms : \A t \in Instants :
        SumQuantity(BookedOn(bookings, r.id, t)) <= r.quantity

\* a room filled to its quantity by two admitted bookings sharing a day
C1_Witness ==
    \E r \in rooms : \E t \in Instants :
        /\ Cardinality(BookedOn(bookings, r.id, t)) = 2
        /\ SumQuantity(BookedOn(bookings, r.id, t)) = r.quantity

\* C2: under interleaving, every admitted request still passed the admission
\* test against the sum it read itself, yet a state is reachable where two
\* requests read the same booked quantity, both were answered 201, both rows
\* are stored and together they exceed Room.quantity.
C2_AdmittedAgainstOwnRead ==
    \A p \in Procs :
        resp[p].status = 201 =>
            \A w \in resp[p].row : \A r \in room[p] :
                OrZero(booked[p]) + w.quantity <= r.quantity

C2_Witness ==
    \E w1 \in resp[1].row : \E w2 \in resp[2].row : \E r \in rooms :
        /\ resp[1].status = 201 /\ resp[2].status = 201
        /\ booked[1] = booked[2]
        /\ {w1, w2} \subseteq bookings /\ w1 # w2
        /\ w1.room_id = r.id /\ w2.room_id = r.id
        /\ w1.check_in_date < w2.check_out_date /\ w2.check_in_date < w1.check_out_date
        /\ OrZero(booked[1]) + w1.quantity + w2.quantity > r.quantity

\* the overlap sum as the specification words it
ClaimedOverlapSum(store, rid, lo, hi) ==
    SumQuantity({b \in store : b.room_id = rid /\ b.check_in_date < hi /\ b.check_out_date > lo})

\* Room.quantity minus the overlap sum
ClaimedAvailable(store, rid, lo, hi) ==
    (CHOOSE r \in rooms : r.id = rid).quantity - ClaimedOverlapSum(store, rid, lo, hi)

RoomExists(rid) == \E r \in rooms : r.id = rid

BothDates(b) == b.check_in_date.t = "date" /\ b.check_out_date.t = "date"

\* process p takes a step of its handler that is not the catch of a failed database call
Returns(p, at) == pc[p] = at /\ pc'[p] # at /\ resp'[p].status # 500

\* C3 as first stated: every getAvailability query with parseable dates on an
\* existing room reports Room.quantity minus the overlap sum, so a room with
\* quantity Q and no overlapping bookings reports Q.
C3_AlwaysReported ==
    [][\A p \in Procs :
        (Returns(p, "ga_sum") /\ BothDates(req[p])) =>
            resp'[p].avail = {ClaimedAvailable(bookings, req[p].room_id.n,
                                 req[p].check_in_date.n, req[p].check_out_date.n)}]_vars

\* C3: a getAvailability query with parseable dates on an existing room is
\* answered 200 with availableQuantity = Room.quantity minus the sum of quantity
\* over the stored bookings of the room with check_in_date < checkOutDate and
\* check_out_date > checkInDate (0 when none overlaps), unless the quantity
\* parameter is a number greater than that value: then it is answered 400 and
\* no availableQuantity is reported.
C3_ReportedAvailability ==
    [][\A p \in Procs :
        (Returns(p, "ga_sum") /\ BothDates(req[p])) =>
            LET avail == ClaimedAvailable(bookings, req[p].room_id.n,
                             req[p].check_in_date.n, req[p].check_out_date.n)
            IN  IF req[p].quantity.t = "numstr" /\ req[p].quantity.n > avail
                THEN resp'[p] = NotEnoughMessage
                ELSE resp'[p].status = 200 /\ resp'[p].avail = {avail}]_vars

\* room 1 (quantity 2) is reported with 1 unit left, one unit being booked
C3_Witness ==
    \E p \in Procs :
        /\ op[p] = "getAvailability" /\ resp[p].status = 200 /\ resp[p].avail = {1}
        /\ room[p] = {[id |-> 1, quantity |-> 2]}
        /\ \E w \in bookings : w.room_id = 1 /\ w.quantity = 1

\* stored bookings that end on the first day of [lo, hi) or start on hi
Adjacent(store, lo, hi) == {b \in store : b.check_out_date = lo \/ b.check_in_date = hi}

\* C4: in getAvailability and createBooking the overlap sum, and with it the
\* admission decision, is the one obtained with every booking that ends on
\* the interval's start date or starts on its end date removed from the store.
C4_AdjacentNotCounted ==
    [][\A p \in Procs :
        (Returns(p, "cb_sum") \/ Returns(p, "ga_sum")) =>
            LET lo == DbDate(req[p].check_in_date)
                hi == DbDate(req[p].check_out_date)
                rid == req[p].room_id.n
                rest == bookings \ Adjacent(bookings, lo, hi)
                avail == ClaimedAvailable(rest, rid, lo, hi)
            IN  /\ pc[p] = "ga_sum" => resp'[p].avail \in {{}, {avail}}
                /\ pc[p] = "ga_sum" =>
                     (resp'[p].status = 200 <=>
                        ~(req[p].quantity.t = "numstr" /\ req[p].quantity.n > avail))
                /\ pc[p] = "cb_sum" =>
                     /\ pc'[p] = "cb_create" <=> req[p].quantity.n <= avail
                     /\ pc'[p] = "cb_create" =>
                          OrZero(booked'[p]) = ClaimedOverlapSum(rest, rid, lo, hi)]_vars

\* a booking admitted next to one that ends on its check-in date, the two
\* together exceeding the room's quantity
C4_Witness ==
    \E w1 \in bookings : \E w2 \in bookings : \E r \in rooms :
        /\ w1.room_id = r.id /\ w2.room_id = r.id
        /\ 1 <= w1.check_in_date /\ w1.check_in_date < w1.check_out_date
        /\ w1.check_out_date = w2.check_in_date /\ w2.check_in_date < w2.check_out_date
        /\ w1.id < w2.id
        /\ w1.quantity + w2.quantity > r.quantity

\* C5: a createBooking request that passed validation, on an existing room,
\* asking for more than Room.quantity minus the overlap sum of its interval is
\* answered 400 "Not enough rooms available for the selected dates", never
\* reaches Booking.create and leaves the Booking store as it was.
C5_RejectedWithoutPersistence ==
    [][\A p \in Procs :
        (/\ Returns(p, "cb_sum")
         /\ req[p].quantity.n > ClaimedAvailable(bookings, req[p].room_id.n,
                                    DbDate(req[p].check_in_date), DbDate(req[p].check_out_date))) =>
            /\ resp'[p] = NotEnoughMessage
            /\ pc'[p] = "idle"
            /\ bookings' = bookings /\ nextId' = nextId]_vars

\* a createBooking request rejected on a room whose quantity is fully booked
C5_Witness ==
    \E p \in Procs :
        /\ op[p] = "createBooking" /\ pc[p] = "idle" /\ resp[p] = NotEnoughMessage
        /\ \E t \in Days : SumQuantity(BookedOn(bookings, 1, t)) = 2

\* the row carries the fields of the request body
Carries(w, b) ==
    /\ w.room_id = b.room_id.n /\ w.user_id = b.user_id.n
    /\ w.check_in_date = DbDate(b.check_in_date) /\ w.check_out_date = DbDate(b.check_out_date)
    /\ w.total_price = b.total_price.n /\ w.quantity = b.quantity.n
    /\ w.full_name = b.full_name /\ w.hotel_id = b.hotel_id.n

\* C6: every step of a createBooking request either leaves the Booking store
\* unchanged and does not answer 201, or adds exactly one new row carrying the
\* request's fields, answers 201 and sends that row as the response body.
C6_OneRowOrNone ==
    [][\A p \in Procs :
        (op'[p] = "createBooking" /\ (pc[p] # "idle" \/ pc'[p] # "idle" \/ resp'[p] # resp[p])) =>
            \/ /\ bookings' = bookings
               /\ resp'[p].status # 201 /\ resp'[p].row = {}
            \/ \E w \in bookings' \ bookings :
                 /\ bookings' = bookings \cup {w}
                 /\ \A x \in bookings : x.id # w.id
                 /\ Carries(w, req[p])
                 /\ resp'[p].status = 201 /\ resp'[p].row = {w}
                 /\ pc[p] = "cb_create" /\ pc'[p] = "idle"]_vars

\* a 201 response whose body is a stored row, a second one having been stored before
C6_Witness ==
    \E p \in Procs : \E w \in resp[p].row :
        /\ resp[p].status = 201 /\ w \in bookings
        /\ w.id = 2 /\ Cardinality(bookings) = 2

\* C7: when a createBooking request of quantity q for room R and dates [a, b)
\* is admitted, the availableQuantity of R for [a, b) is exactly q less after
\* the insert than before it.
C7_AdmissionLowersAvailability ==
    [][\A p \in Procs :
        (Returns(p, "cb_create") /\ BothDates(req[p])) =>
            LET rid == req[p].room_id.n
                a == req[p].check_in_date.n
                b == req[p].check_out_date.n
            IN  ClaimedAvailable(bookings', rid, a, b)
                    = ClaimedAvailable(bookings, rid, a, b) - req[p].quantity.n]_vars

\* all of room 1 (quantity 2) admitted for an interval where nothing else is booked
C7_Witness ==
    \E p \in Procs : \E w \in resp[p].row :
        /\ resp[p].status = 201 /\ w \in bookings
        /\ w.room_id = 1 /\ w.quantity = 2 /\ 1 <= w.check_in_date
        /\ booked[p] = NullSum
        /\ ClaimedAvailable(bookings, 1, w.check_in_date, w.check_out_date) = 0

\* C8: when Room.findOne of createBooking or getAvailability finds no room with
\* the requested id, the request is answered 400 "Room not found", neither
\* the overlap sum nor Booking.create is reached, and the Booking store is unchanged.
C8_RoomNotFound ==
    [][\A p \in Procs :
        ((Returns(p, "cb_findOne") \/ Returns(p, "ga_findOne")) /\ ~RoomExists(req[p].room_id.n)) =>
            /\ resp'[p] = RoomNotFoundMessage
            /\ pc'[p] = "idle"
            /\ booked'[p] = NullSum /\ room'[p] = {}
            /\ bookings' = bookings /\ nextId' = nextId]_vars

\* a createBooking request for a room that does not exist was answered, the store holding a row
C8_Witness ==
    \E p \in Procs :
        /\ op[p] = "createBooking" /\ pc[p] = "idle" /\ resp[p] = RoomNotFoundMessage
        /\ room[p] = {} /\ bookings # {}

\* the dates of a query parse and checkInDate is not before checkOutDate
QueryDatesInverted(q) == BothDates(q) /\ q.check_in_date.n >= q.check_out_date.n

\* C9, for dates that parse: a getAvailability query with
\* checkInDate >= checkOutDate is answered 400 and reports no availableQuantity.
C9_InvalidDatesRejected ==
    [][\A p \in Procs :
        (/\ pc[p] \in {"ga_findOne", "ga_sum"} /\ pc'[p] = "idle" /\ resp'[p].status # 500
         /\ QueryDatesInverted(req[p])) =>
            resp'[p].status = 400 /\ resp'[p].avail = {}]_vars

\* the stored row and the request body satisfy the Booking invariant
RowValid(w) == w.check_in_date < w.check_out_date /\ w.quantity > 0 /\ w.total_price > 0

BodyValid(b) ==
    /\ BothDates(b) /\ b.check_in_date.n < b.check_out_date.n
    /\ b.quantity.t = "num" /\ b.quantity.n > 0
    /\ b.total_price.t = "num" /\ b.total_price.n > 0

\* C10: every stored Booking row has check_in_date < check_out_date,
\* quantity > 0 and total_price > 0, and a createBooking request whose body
\* violates one of these (dates that do not parse included) is answered 400
\* and stores nothing.
C10_BookingInvariant ==
    [][/\ \A w \in bookings' : RowValid(w)
       /\ \A p \in Procs :
            (/\ op'[p] = "createBooking" /\ pc[p] # "idle" /\ pc'[p] = "idle"
             /\ resp'[p].status # 500 /\ ~BodyValid(req[p])) =>
                resp'[p].status = 400 /\ bookings' = bookings]_vars

\* C11: after any sequence of createRoom and updateRoom requests every stored
\* Room row has quantity >= 0: no request that passes validation stores a
\* negative quantity.
C11_QuantityNonNegative == \A r \in rooms : r.quantity >= 0

\* a createBooking body that validation is to reject: a required field is
\* absent, the dates parse and check-in is not before check-out, or total_price
\* or quantity is not a positive number
BodyRejected(b) ==
    \/ \E f \in {"room_id", "user_id", "check_in_date", "check_out_date", "total_price",
                 "quantity", "full_name", "hotel_id"} : b[f] = Undef
    \/ BothDates(b) /\ b.check_in_date.n >= b.check_out_date.n
    \/ ~(b.total_price.t = "num" /\ b.total_price.n > 0)
    \/ ~(b.quantity.t = "num" /\ b.quantity.n > 0)

\* a getAvailability query that validation is to reject: a parameter is absent
QueryRejected(q) ==
    \E f \in {"room_id", "check_in_date", "check_out_date", "quantity"} : q[f] = Undef

RejectedBy(o, b) == IF o = "createBooking" THEN BodyRejected(b) ELSE QueryRejected(b)

\* the stores of the booking handlers
stores == <<rooms, bookings, nextId>>

\* process p, idle, receives a request and takes its first step
Receives(p) ==
    /\ pc[p] = "idle"
    /\ <<pc[p], op[p], resp[p], calls[p], sent[p]>>' # <<pc[p], op[p], resp[p], calls[p], sent[p]>>

\* C12: in createBooking and getAvailability validation comes before any
\* database call: the step that receives a request either answers 400 with
\* no Room.findOne, Booking.sum or Booking.create issued and the stores
\* unchanged, or issues Room.findOne as the first call for a request that
\* passes validation; a request that fails validation is never in flight.
C12_ValidationFirst ==
    /\ [](\A p \in Procs :
            (op[p] \in {"createBooking", "getAvailability"} /\ pc[p] # "idle") =>
                ~RejectedBy(op[p], req[p]) /\ calls[p] # <<>>)
    /\ [][\A p \in Procs :
            (Receives(p) /\ op'[p] \in {"createBooking", "getAvailability"}) =>
                /\ stores' = stores
                /\ \/ /\ resp'[p].status = 400 /\ resp'[p].key = "error"
                      /\ calls'[p] = <<>> /\ pc'[p] = "idle" /\ sent'[p] = 1
                   \/ /\ ~RejectedBy(op'[p], req'[p])
                      /\ calls'[p] = <<"Room.findOne">> /\ pc'[p] # "idle"
                      /\ resp'[p] = NoResp /\ sent'[p] = 0]_vars

\* a getAvailability query was rejected by validation without a call, the
\* store holding a booking
C12_Witness ==
    /\ op[1] = "getAvailability" /\ resp[1] = Json(400, "error", "Missing required fields")
    /\ calls[1] = <<>> /\ pc[1] = "idle" /\ bookings # {}

\* process p takes a step of the handler named o
StepOf(p, o) == op'[p] = o /\ (pc[p] # "idle" \/ Receives(p))

\* C13: getAvailability is a pure read: every step of a getAvailability
\* request, whatever it answers (200, 400 or 500), leaves the Booking store
\* and the Room store exactly as they were.
C13_PureRead ==
    [][\A p \in Procs :
        StepOf(p, "getAvailability") =>
            /\ bookings' = bookings /\ rooms' = rooms /\ nextId' = nextId
            /\ resp'[p].status \in {0, 200, 400, 500}]_vars

\* a getAvailability request whose Booking.sum failed was answered 500, the
\* store holding two bookings
C13_Witness ==
    /\ op[1] = "getAvailability" /\ resp[1].status = 500 /\ pc[1] = "idle"
    /\ calls[1] = <<"Room.findOne", "Booking.sum">>
    /\ Cardinality(bookings) = 2

BookingHandlers ==
    {"createBooking", "getAvailability", "getDetailBooking", "getAllBooking", "deleteBooking"}

\* the call of process p that is awaited
Awaited(p) == calls[p][Len(calls[p])]

\* C14: a failing database call of createBooking, getAvailability,
\* getDetailBooking, getAllBooking or deleteBooking is caught in the same
\* handler and answered 500: the request ends there with its single response,
\* no further call and the stores unchanged; when Room.findOne or Booking.sum
\* of createBooking fails, Booking.create is never issued.  A 500 is only ever
\* the answer to a call that was issued.
C14_FailureCaught ==
    /\ [](\A p \in Procs :
            (op[p] \in BookingHandlers /\ resp[p].status = 500) =>
                /\ pc[p] = "idle" /\ sent[p] = 1 /\ calls[p] # <<>>
                /\ (op[p] = "createBooking" /\ Awaited(p) \in {"Room.findOne", "Booking.sum"}) =>
                      \A i \in 1..Len(calls[p]) : calls[p][i] # "Booking.create")
    /\ [][\A p \in Procs :
            (op[p] \in BookingHandlers /\ pc[p] # "idle" /\ resp'[p].status = 500) =>
                /\ pc'[p] = "idle" /\ calls'[p] = calls[p]
                /\ stores' = stores]_vars

\* Booking.sum of a createBooking request failed after a booking was stored:
\* 500, and only Room.findOne and Booking.sum were issued
C14_Witness ==
    /\ op[1] = "createBooking" /\ resp[1].status = 500 /\ pc[1] = "idle"
    /\ calls[1] = <<"Room.findOne", "Booking.sum">>
    /\ bookings # {}

\* the number of times call c is in the log of process p
Issued(p, c) == Cardinality({i \in 1..Len(calls[p]) : calls[p][i] = c})

\* C15: provided every awaited database call eventually returns or fails,
\* every createBooking, getAvailability and deleteBooking request eventually
\* ends having sent exactly one response; no request sends a second response,
\* issues a database call twice, or issues a call once it has responded.
C15_OneResponse ==
    /\ \A p \in {1} : (pc[p] # "idle") ~> (pc[p] = "idle" /\ sent[p] = 1)
    /\ [](\A p \in Procs :
            /\ sent[p] <= 1
            /\ pc[p] # "idle" => sent[p] = 0
            /\ (pc[p] = "idle" /\ op[p] # "none") => sent[p] = 1
            /\ \A c \in {"Room.findOne", "Booking.sum", "Booking.create", "Booking.destroy"} :
                 Issued(p, c) <= 1)
    /\ [][\A p \in Procs :
            (sent[p] = 1 /\ calls'[p] # calls[p]) => (Receives(p) /\ Len(calls'[p]) <= 1)]_vars

\* a deleteBooking request that removed a stored booking has sent its one
\* response after its one call
C15_Witness ==
    /\ op[1] = "deleteBooking" /\ pc[1] = "idle" /\ sent[1] = 1 /\ resp[1].status = 200
    /\ calls[1] = <<"Booking.destroy">> /\ nextId > 1

\* C16: a Booking row leaves the store only through deleteBooking:
\* deleteBooking(id) removes exactly the booking with that id and answers 200
\* when it exists, answers 404 and leaves the store unchanged when it does not,
\* and no step of createBooking, getAvailability, getAllBooking or
\* getDetailBooking removes or alters a stored row.
C16_OnlyDeleteRemoves ==
    [][\A p \in Procs :
        /\ Returns(p, "del_destroy") =>
              LET target == {w \in bookings : w.id = req[p].id.n}
              IN  /\ bookings' = bookings \ target
                  /\ resp'[p] = IF target = {} THEN BookingNotFound
                                ELSE Json(200, "message", "Booking deleted successfully")
        /\ (\E o \in BookingHandlers \ {"deleteBooking"} : StepOf(p, o)) =>
              bookings \subseteq bookings'
        /\ bookings \ bookings' # {} => op'[1] = "deleteBooking" /\ pc[1] = "del_destroy"]_vars

\* the first of two stored bookings was deleted and the second is still stored
C16_Witness ==
    /\ op[1] = "deleteBooking" /\ pc[1] = "idle" /\ resp[1].status = 200
    /\ nextId = 3 /\ \E w \in bookings : bookings = {w} /\ w.id = 2

\* C17, for the review handlers: a getDetailReview, updateReview or
\* deleteReview request that passes validation, none of whose database calls
\* fails, and whose id names no stored review is answered 404 and changes no
\* stored state.
C17_NotFound ==
    [][\A id \in Ids(MaxReviews) :
        (/\ ReviewFindOne(id) = {}
         /\ \/ getDetailReview(id, 0)
            \/ updateReview(id, GoodReviewUpdate, 0)
            \/ deleteReview(id, 0)) =>
            resp'[1].status = 404 /\ reviews' = reviews]_vars

\* C18: every response of a controller carries a status of
\* {200, 201, 400, 401, 404, 500}, 200 for every successful read, update or
\* delete and 201 for every successful create.
C18_StatusCodes ==
    \A p \in Procs :
        /\ op[p] # "none" /\ pc[p] = "idle" => resp[p].status \in {200, 201, 400, 401, 404, 500}
        /\ (op[p] = "deleteUrlImageRoom" /\ resp[p].status \notin {400, 404, 500}) =>
              resp[p].status = 200

\* call c is in the log of the request just answered
Called(c) == \E i \in 1..Len(calls[1]) : calls[1][i] = c

\* C19: with register requests handled one at a time, no two stored users
\* share an email or a phone number, and a register request that passes field
\* validation and carries the email or the numberPhone of a stored user is
\* answered 400 "Email or phone number already exists" without User.create
\* being called.
C19_UniqueUsers ==
    /\ [](\A u \in users : \A w \in users :
            (u.email = w.email \/ u.numberPhone = w.numberPhone) => u = w)
    /\ [][\A b \in RegisterBodies :
            (/\ register(b, 0)
             /\ IsString(b.name) /\ b.password.t = "password"
             /\ b.email.t = "email" /\ b.numberPhone.t = "phone"
             /\ \E u \in users : u.email = b.email.n \/ u.numberPhone = b.numberPhone.n) =>
                /\ resp'[1] = AlreadyExists
                /\ \A i \in 1..Len(calls'[1]) : calls'[1][i] # "User.create"
                /\ users' = users]_vars

\* a second user is stored and a register request repeating a stored phone
\* number with a new email was rejected
C19_Witness ==
    /\ op[1] = "register" /\ resp[1] = AlreadyExists /\ ~Called("User.create")
    /\ Cardinality(users) = 2
    /\ \E u \in users : \E w \in users : u.email # w.email /\ u.numberPhone # w.numberPhone

\* C20: login answers 200 with a token only when a user with the given email
\* is stored and the given password is the one its stored hash was made from;
\* with no such user it answers 404 without comparing or signing, with a
\* password that does not match 401 without signing; it never changes the
\* User store.
C20_Login ==
    [][\A b \in LoginBodies : \A failAt \in 0..1 :
        login(b, failAt) =>
            LET known == {u \in users : b.email.t = "email" /\ u.email = b.email.n}
                matching == {u \in known : u.password = HashSync(b.password)}
            IN  /\ users' = users
                /\ (resp'[1].status = 200 \/ \E i \in 1..Len(calls'[1]) : calls'[1][i] = "jwt.sign") =>
                      matching # {} /\ IsString(b.password) /\ resp'[1].row = matching
                /\ (failAt = 0 /\ b.email # Undef /\ known = {}) =>
                      resp'[1].status = 404 /\ calls'[1] = <<"User.findOne">>
                /\ (failAt = 0 /\ known # {} /\ IsString(b.password) /\ matching = {}) =>
                      /\ resp'[1].status = 401
                      /\ calls'[1] = <<"User.findOne", "bcrypt.compareSync">>
                /\ (failAt = 0 /\ matching # {} /\ IsString(b.password)) => resp'[1].status = 200]_vars

\* the second of two stored users logged in and was sent a token
C20_Witness ==
    /\ op[1] = "login" /\ resp[1].status = 200 /\ Called("jwt.sign")
    /\ Cardinality(users) = 2 /\ \E u \in resp[1].row : u \in users /\ u.id = 2

\* the step is one of the handler named o, run from its request to its response
HandlerRan(o) == pc[1] = "idle" /\ op'[1] = o

\* an updatePassword body that validation is to reject: userId is absent, or
\* currentPassword or newPassword is no string of six characters or more
PasswordBodyRejected(b) ==
    \/ b.userId = Undef
    \/ b.currentPassword.t # "password"
    \/ b.newPassword.t # "password"

\* C21: updatePassword changes a stored password only when the user exists
\* and currentPassword is the password its stored hash was made from: it then
\* stores the hash of newPassword for that user alone; on 400, 404, 401 and
\* 500 the stored password of every user is unchanged, and a request that
\* fails validation is answered 400 without the user being looked up.
C21_UpdatePassword ==
    [][\A r \in PasswordRequests :
        (HandlerRan("updatePassword") /\ updatePassword(r[1], r[2])) =>
            LET b == r[1]
                target == {u \in users : b.userId.t = "num" /\ u.id = b.userId.n}
                matching == {u \in target : u.password = HashSync(b.currentPassword)}
            IN  /\ resp'[1].status \in {200, 400, 401, 404, 500}
                /\ (users' # users \/ resp'[1].status = 200) =>
                      /\ ~PasswordBodyRejected(b) /\ matching # {} /\ resp'[1].status = 200
                      /\ users' = (users \ matching)
                                    \cup {[u EXCEPT !.password = HashSync(b.newPassword)] : u \in matching}
                /\ resp'[1].status # 200 => users' = users
                /\ PasswordBodyRejected(b) => resp'[1].status = 400 /\ calls'[1] = <<>>
                /\ (~PasswordBodyRejected(b) /\ r[2] = 0) =>
                      resp'[1].status = IF target = {} THEN 404
                                        ELSE IF matching = {} THEN 401 ELSE 200]_vars

\* the second of two stored users changed its password from the first word to
\* the second, the first user keeping the hash of the first word
C21_Witness ==
    /\ op[1] = "updatePassword" /\ resp[1].status = 200 /\ Called("User.update")
    /\ \E u \in users : \E w \in users :
         /\ u.id = 1 /\ u.password = HashSync(Password(1))
         /\ w.id = 2 /\ w.password = HashSync(Password(2))

\* C22: deleteRoom removes the Room row only in a request answered 200, in
\* which the external deletion and the destruction of the record were issued
\* for every image of the room before Room.destroy and no image of the room is
\* left; a request for a room that is not stored is answered 404 and deletes
\* nothing; when the deletion of an image fails the request is answered 500
\* and the Room row is still stored.
C22_DeleteRoom ==
    [][\A id \in RoomIds : \A failAt \in 0..3 : \A stage \in {"none", "cloudinary", "destroy"} :
       \A failed \in SUBSET ImagesOfRoom(id) :
        (HandlerRan("deleteRoom") /\ deleteRoom(id, failAt, failed, stage)) =>
            LET n == Cardinality(ImagesOfRoom(id))
                cs == calls'[1]
            IN  /\ resp'[1].status \in {200, 404, 500}
                /\ rooms' # rooms =>
                      /\ resp'[1].status = 200 /\ failed = {}
                      /\ rooms' = rooms \ {r \in rooms : r.id = id.n}
                      /\ \A i \in images' : i.IdRoom # id.n
                      /\ \A i \in images \ images' : i.IdRoom = id.n
                      /\ Len(cs) = 2 * n + 3 /\ cs[Len(cs)] = "Room.destroy"
                      /\ Cardinality({k \in 1..Len(cs) : cs[k] = "cloudinary.uploader.destroy"}) = n
                      /\ Cardinality({k \in 1..Len(cs) : cs[k] = "UrlImageRoom.destroy"}) = n
                /\ resp'[1].status = 200 => rooms' # rooms
                /\ RoomFindOne(id) = {} =>
                      /\ failAt # 1 => resp'[1].status = 404
                      /\ rooms' = rooms /\ images' = images
                /\ (RoomFindOne(id) # {} /\ failed # {} /\ failAt \notin {1, 2}) =>
                      /\ resp'[1].status = 500 /\ rooms' = rooms
                      /\ failed \subseteq images']_vars

\* a deleteRoom request for room 1 with two images, the deletion of one of
\* which failed, was answered 500: the room and that image are still stored
C22_Witness ==
    /\ op[1] = "deleteRoom" /\ resp[1].status = 500
    /\ Cardinality({k \in 1..Len(calls[1]) : calls[1][k] = "cloudinary.uploader.destroy"}) = 2
    /\ ~Called("Room.destroy")
    /\ \E r \in rooms : r.id = 1
    /\ Cardinality({i \in images : i.IdRoom = 1}) = 1

\* a create body that breaks a rule of the Coupon record: the code is absent
\* or empty, percent is no number in (0, 100], a date is absent or does not
\* parse, or begin is not before end
CouponBodyInvalid(b) ==
    \/ b.code \in {Undef, EmptyStr}
    \/ ~(b.percent.t = "num" /\ 0 < b.percent.n /\ b.percent.n <= 100)
    \/ b.begin.t # "date" \/ b.end.t # "date"
    \/ b.begin.n >= b.end.n

\* C23: every coupon stored by create has a non-empty code, a numeric percent
\* with 0 < percent <= 100 and dates that parse with begin before end; a
\* create request that breaks one of these is answered 400 without
\* Coupons.create being called and stores nothing.
C23_CouponInvariant ==
    /\ [](\A c \in coupons : ~CouponBodyInvalid(c))
    /\ [][\A b \in CouponBodies :
            (HandlerRan("create") /\ create(b, 0) /\ CouponBodyInvalid(b)) =>
                /\ resp'[1].status = 400
                /\ calls'[1] = <<>>
                /\ coupons' = coupons]_vars

\* a request with percent 101 was answered 400 without a call, two coupons
\* being stored, one of them with percent 100
C23_Witness ==
    /\ op[1] = "create" /\ calls[1] = <<>>
    /\ resp[1] = Json(400, "error", "'percent' must be a number between 1 and 100.")
    /\ Cardinality(coupons) = 2 /\ \E c \in coupons : c.percent = Num(100)

\* C24: a createBooking request with valid dates on a stored room, none of
\* whose database calls fails, is admitted exactly when the overlap sum plus
\* its quantity is at most Room.quantity: it is then answered 201 with its
\* row inserted, and otherwise answered 400 with nothing inserted; a request
\* for exactly the available quantity is admitted and leaves 0 available for
\* its interval.
C24_AdmissionBoundary ==
    [][\A p \in Procs :
        /\ (Returns(p, "cb_sum") /\ BothDates(req[p])) =>
              LET rid == req[p].room_id.n
                  a == req[p].check_in_date.n
                  b == req[p].check_out_date.n
                  fits == ClaimedOverlapSum(bookings, rid, a, b) + req[p].quantity.n
                              <= (CHOOSE r \in rooms : r.id = rid).quantity
              IN  /\ bookings' = bookings
                  /\ IF fits THEN pc'[p] = "cb_create" /\ resp'[p] = NoResp
                             ELSE pc'[p] = "idle" /\ resp'[p] = NotEnoughMessage
        /\ (Returns(p, "cb_create") /\ BothDates(req[p])) =>
              LET rid == req[p].room_id.n
                  a == req[p].check_in_date.n
                  b == req[p].check_out_date.n
                  q == req[p].quantity.n
              IN  /\ resp'[p].status = 201
                  /\ \E w \in resp'[p].row : w \notin bookings /\ bookings' = bookings \cup {w}
                  /\ q <= ClaimedAvailable(bookings, rid, a, b)
                  /\ q = ClaimedAvailable(bookings, rid, a, b) =>
                        ClaimedAvailable(bookings', rid, a, b) = 0]_vars

\* the last free unit of room 1 was asked for and admitted next to a booking
\* of one unit that overlaps it: nothing is available for its interval now
C24_Witness ==
    \E w \in resp[1].row :
        /\ op[1] = "createBooking" /\ resp[1].status = 201 /\ w \in bookings
        /\ w.room_id = 1 /\ w.quantity = 1 /\ booked[1] = [null |-> FALSE, n |-> 1]
        /\ ClaimedAvailable(bookings, 1, w.check_in_date, w.check_out_date) = 0

\* the largest quantity of room rid booked on a single day of [lo, hi)
PeakLoad(store, rid, lo, hi) ==
    LET loads == {SumQuantity(BookedOn(store, rid, t)) : t \in lo..(hi - 1)}
    IN  CHOOSE m \in loads : \A x \in loads : x <= m

\* C25: the availableQuantity of room R for [a, b) is Room.quantity minus the
\* largest quantity booked on a single day of [a, b), the number of units
\* free during the whole interval, and createBooking admits every request
\* whose quantity fits next to the quantity booked on each day of its interval.
C25_FreeUnits ==
    [][\A p \in Procs :
        ((Returns(p, "cb_sum") \/ Returns(p, "ga_sum")) /\ BothDates(req[p])) =>
            LET rid == req[p].room_id.n
                a == req[p].check_in_date.n
                b == req[p].check_out_date.n
                free == (CHOOSE r \in rooms : r.id = rid).quantity - PeakLoad(bookings, rid, a, b)
            IN  /\ pc[p] = "ga_sum" => resp'[p].avail \in {{}, {free}}
                /\ (pc[p] = "cb_sum" /\ req[p].quantity.n <= free) => pc'[p] = "cb_create"]_vars

\* C26: getAvailability and createBooking decide alike.  For a stored room,
\* valid dates and a positive quantity q, getAvailability answers 200 exactly
\* when the admission test of createBooking lets q through against the
\* stored bookings of that state, and createBooking goes on to Booking.create
\* exactly when the test of getAvailability does not refuse q; a request that
\* is refused is answered 400 "Not enough rooms available for the selected
\* dates" by either handler.
C26_SameDecision ==
    [][\A p \in Procs :
        ((Returns(p, "cb_sum") \/ Returns(p, "ga_sum"))
            /\ BothDates(req[p]) /\ req[p].check_in_date.n < req[p].check_out_date.n
            /\ req[p].quantity.n > 0) =>
            LET r == CHOOSE x \in rooms : x.id = req[p].room_id.n
                s == BookingSum(bookings, r.id, req[p].check_in_date.n, req[p].check_out_date.n)
                q == req[p].quantity.n
                admits == ~NotEnoughRooms(s, q, r)
                reports == ~LessThanRequested(r.quantity - OrZero(s), NumStr(q))
            IN  /\ admits <=> reports
                /\ pc[p] = "ga_sum" => (resp'[p].status = 200 <=> admits)
                /\ pc[p] = "cb_sum" => (pc'[p] = "cb_create" <=> reports)
                /\ (pc[p] = "ga_sum" /\ ~admits) => resp'[p] = NotEnoughMessage
                /\ (pc[p] = "cb_sum" /\ ~reports) => resp'[p] = NotEnoughMessage]_vars

\* getAvailability answered 200 for exactly the quantity that is left of
\* room 1, one unit of which is booked
C26_Witness ==
    /\ op[1] = "getAvailability" /\ resp[1].status = 200 /\ resp[1].avail = {1}
    /\ Cardinality(bookings) = 1
    /\ \E w \in bookings : w.room_id = 1 /\ w.quantity = 1 /\ w.check_in_date = 1
                              /\ w.check_out_date = MaxDay

\* the Booking store once deleteBooking has run for the id given
WithoutBooking(store, id) == {w \in store : w.id # id}

\* availableQuantity is the same in both stores for every stored room and
\* every interval of the calendar, the zero date included
SameAvailability(st1, st2) ==
    \A r \in rooms : \A lo \in Instants : \A hi \in Instants :
        ClaimedAvailable(st1, r.id, lo, hi) = ClaimedAvailable(st2, r.id, lo, hi)

\* C27: createBooking followed by deleteBooking of the booking it created,
\* with no request in between, is a round trip on availability: deleteBooking
\* leaves the store without the row of the given id and nothing else changed,
\* and the store an admitted createBooking leaves behind, taken without the
\* row it created, gives every room the availableQuantity it had before the
\* createBooking for every interval.
C27_RoundTrip ==
    [][\A p \in Procs :
        /\ Returns(p, "del_destroy") =>
              /\ bookings' = WithoutBooking(bookings, req[p].id.n)
              /\ rooms' = rooms
        /\ Returns(p, "cb_create") =>
              \E w \in resp'[p].row :
                  /\ w \in bookings' /\ rooms' = rooms
                  /\ WithoutBooking(bookings', w.id) = bookings
                  /\ SameAvailability(WithoutBooking(bookings', w.id), bookings)
                  /\ ~SameAvailability(bookings', bookings)]_vars

\* the second booking was created and then deleted: the first is stored alone
\* again
C27_Witness ==
    /\ op[1] = "deleteBooking" /\ pc[1] = "idle" /\ resp[1].status = 200
    /\ nextId = 3 /\ \E w \in bookings : bookings = {w} /\ w.id = 1

\* the largest quantity of room rid booked at one instant
PeakBooked(store, rid) ==
    LET loads == {SumQuantity(BookedOn(store, rid, t)) : t \in Instants}
    IN  CHOOSE m \in loads : \A x \in loads : x <= m

\* C28: updateRoom neither reads nor writes the Booking store and checks no
\* availability: its only calls are Room.findOne and Room.save, and for a
\* stored room and a body that passes validation it stores the quantity of
\* the body, also one below the quantity booked on some day; the room is
\* within its per-day inventory bound afterwards exactly when the new
\* quantity is at least the peak booked load.
C28_UpdateRoomFrame ==
    [][\A u \in InventoryUpdates :
        (HandlerRan("updateRoom") /\ updateRoom(u[1], u[2], u[3])) =>
            LET rid == u[1].n
                q == u[2].quantity
            IN  /\ bookings' = bookings /\ nextId' = nextId
                /\ \A i \in 1..Len(calls'[1]) : calls'[1][i] \in {"Room.findOne", "Room.save"}
                /\ (u[3] = 0 /\ q.t = "numstr" /\ RoomExists(rid)) =>
                      /\ resp'[1].status = 200
                      /\ rooms' = {r \in rooms : r.id # rid} \cup {[id |-> rid, quantity |-> q.n]}
                      /\ (\A t \in Instants : SumQuantity(BookedOn(bookings', rid, t)) <= q.n)
                            <=> q.n >= PeakBooked(bookings, rid)
                /\ resp'[1].status # 200 => rooms' = rooms]_vars

\* updateRoom set the quantity of room 1 to 1 while two units of it are
\* booked on the same day
C28_Witness ==
    /\ op[1] = "updateRoom" /\ resp[1].status = 200
    /\ [id |-> 1, quantity |-> 1] \in rooms
    /\ \E t \in Days : SumQuantity(BookedOn(bookings, 1, t)) = 2

\* a login with the email and the password given is answered 200 against
\* the User store us
LogsIn(us, email, w) == \E u \in us : u.email = email /\ CompareSync(w, u.password)

\* C29: the stored password of a user is the hash of the password most
\* recently set for it: a register, editUser or updatePassword request that
\* sets a password stores a hash with which a login of that user with that
\* password is answered 200, and a request that sets no password for a user
\* leaves its stored password as it was.
C29_LatestPasswordLogsIn ==
    [][/\ \A r \in AccountRegisters :
            (HandlerRan("register") /\ register(r[1], r[2]) /\ resp'[1].status = 201) =>
                /\ \A u \in users' \ users : u.password = HashSync(r[1].password)
                /\ LogsIn(users', r[1].email.n, r[1].password)
       /\ \A id \in Ids(MaxUsers) : \A e \in AccountEdits :
            (HandlerRan("editUser") /\ editUser(id, e[1], e[2])) =>
                /\ \A u \in users' : \A w \in users :
                      (u.id = w.id /\ (u.id # id.n \/ e[1].password = Undef \/ resp'[1].status # 200))
                          => u.password = w.password
                /\ (resp'[1].status = 200 /\ e[1].password # Undef) =>
                      \A u \in users' : u.id = id.n =>
                          /\ u.password = HashSync(e[1].password)
                          /\ LogsIn(users', u.email, e[1].password)
       /\ \A r \in PasswordRequests :
            (HandlerRan("updatePassword") /\ updatePassword(r[1], r[2]) /\ resp'[1].status = 200) =>
                \A u \in users' : u.id = r[1].userId.n =>
                    /\ u.password = HashSync(r[1].newPassword)
                    /\ LogsIn(users', u.email, r[1].newPassword)]_vars

\* C30: a createRoom request answered 400 or 500 leaves the Room store as it
\* was, also when the request carries no uploaded files or the creation of
\* an image record fails; a Room row is stored only by a request answered 201.
C30_NoRoomOnError ==
    [][\A r \in RoomRequests :
        (HandlerRan("createRoom") /\ createRoom(r[1], r[2], r[3])) =>
            /\ resp'[1].status \in {400, 500} => rooms' = rooms
            /\ rooms' # rooms => resp'[1].status = 201]_vars

====
